---- MODULE Spec2Model ----
\* Audio output engine of the STM32 Walkman firmware.
\*   PWM back-end      : src/stm32_walkman/src/audio/pwm_audio.c
\*   codec back-end    : src/stm32_walkman/src/audio/codec.c
\*   playback controller over the codec : src/stm32_walkman/src/audio/player.c (bare-metal variant)
\*   I2S transport driver and DMA1 stream 5 handler : src/unnamed/part_009
\* One back-end is selected when the firmware is built.
\*   Spec      : every handler is one atomic action.
\*   StepSpec  : the PWM driver's calls run statement by statement, the tick in between.
\*   QuantSpec : the sample clock over every volume and a grid of samples.
EXTENDS Integers, Naturals, Sequences, FiniteSets, TLC

\* ---------------------------------------------------------------- bounds
\* Longest caller buffer, in samples.
MaxLen == 2

\* Cap on the codec position counter (uint32_t in the code, never bounded there).
MaxPos == 3

\* PCM sample values used in caller buffers (int16_t extremes, the centre, a small negative).
Samples == {-32768, -1, 0, 32767}

\* Spacing of the sample values the quantization runs go through.
SampleStride == 32

\* Volume requests handed to audio_set_volume (uint8_t; 150 is above the 0..100 range).
VolumeRequests == {0, 70, 100, 150}

\* ---------------------------------------------------------------- program constants
PWM_PERIOD == 21

INITIAL_VOLUME == 70

INITIAL_PULSE == 10

VOLUME_STEP == 5

CODEC_SAMPLE_RATE_44100 == 44100

\* The null pointer: no caller array has length zero.
CODEC_SAMPLE_RATE_48000 == 48000

CODEC_SAMPLE_RATE_96000 == 96000

\* WM8994 register map (codec.c)
WM8994_CHIP_ID == 0

WM8994_POWER_MANAGEMENT_1 == 1

WM8994_POWER_MANAGEMENT_2 == 2

WM8994_POWER_MANAGEMENT_3 == 3

WM8994_LEFT_OUTPUT_VOLUME == 28

WM8994_RIGHT_OUTPUT_VOLUME == 29

WM8994_OUTPUT_MIXER_1 == 45

WM8994_OUTPUT_MIXER_2 == 46

WM8994_AUDIO_INTERFACE_1 == 768

WM8994_AUDIO_INTERFACE_2 == 769

I2C_BUS_1 == 1
\* i2s_sample_rate_t
I2S_SR_44100 == 44100

I2S_SR_48000 == 48000

I2S_SR_96000 == 96000
\* I2C_TIMEOUT_MS: i2c_wait_event polls a status bit at most I2C_TIMEOUT_MS * 1000 times.
I2C_TIMEOUT_MS == 1000

DEBOUNCE_TIME_MS == 20

LONG_PRESS_TIME_MS == 1000

\* Clock advances in a run of the button poller.
MaxAdvances == 3

NULL == << >>

\* player.c: the static sample array handed to the codec (zero-initialised; AUDIO_BUFFER_SIZE
\* is 44100 in the code, MaxLen here).
audio_buffer == [i \in 1..MaxLen |-> 0]

\* Caller-owned sample arrays of length 1..MaxLen.
Buffers == UNION { [1..n -> Samples] : n \in 1..MaxLen }

\* Arguments of audio_play: every array with its length, and the rejected forms
\* (a null pointer; a length of zero, with a one-sample array or a null pointer).
PlayCalls == { << b, Len(b) >> : b \in Buffers }
             \cup { << b, 0 >> : b \in { x \in Buffers : Len(x) = 1 } }
             \cup { << NULL, 0 >>, << NULL, 1 >> }

\* ---------------------------------------------------------------- state
VARIABLES
    backend,          \* "pwm" | "codec": the back-end the firmware was built with
    audio_state,      \* pwm_audio.c: buffer, buffer_size, sample_index, is_playing, is_paused, volume
    tim2_ccr1,        \* TIM2 channel 1 compare register: the PWM duty count
    player_state,     \* player.c: is_playing, is_paused
    audio_buffer_len, \* player.c: number of valid samples in audio_buffer (set by the storage collaborator)
    audio_buffer_pos, \* player.c
    codec_state,      \* codec.c: is_initialized, is_playing, current_buffer, buffer_size, buffer_position
    chip,             \* what answers at I2C address 0x1A on this board: "wm8994", "other" or "none"
    wm8994,           \* control registers of the codec chip, by the 8-bit register address sent on I2C
    i2s_dma,          \* DMA1 stream 5 (I2S3 transmit): state, addr, ndtr, flags tcif (TCIF5), teif (TEIF5)
    i2s_dma_complete_flag, \* i2s driver: set by the transfer-complete handler
    fg,               \* foreground call in progress: pc (source line about to run, or "idle"), buffer, size
    op,               \* last handler that ran
    ret,              \* status it returned ("void" when the function returns nothing)
    prev,             \* PlaybackState before the last handler ran
    log,              \* samples read by the tick handler since the last audio_play: <<index, sample>>
    run,              \* ticks since the last successful audio_play with no other call in between (-1: interrupted)
    pausedTicks,      \* a tick arrived while Paused since the last successful audio_play
    tc_count,         \* transfer-complete interrupts handled since the stream was last armed
    stopped,          \* stop() has returned and no play() has been accepted since
    buttons_build,    \* which of the two buttons_poll of buttons.c is linked: "bare" or "hal"
    system_tick,      \* milliseconds since start-up (SysTick_Handler)
    pin,              \* level of the volume-up button's input: 1 released (pull-up), 0 pressed
    btn,              \* buttons[BTN_VOL_UP]: state, press_time, debounced
    event,            \* event the last buttons_poll delivered to the callback, or "none"
    diff_since,       \* tick at which the input began to differ from btn.state (-1: it does not)
    pressed_since,    \* tick at which the input went to pressed (-1: it is released)
    advances,         \* clock advances so far
    first_poll,       \* tick of the first buttons_poll that saw the present press (-1: none has)
    press_events,     \* BUTTON_PRESSED events delivered since the input last went to pressed
    spi3_i2spr,       \* SPI3->I2SPR, the I2S clock prescaler register (-1: not written since power-up)
    i2c               \* I2C1 transfer in progress: pc (source line about to run, or "idle"), call,
                      \* arguments, bus operations issued, handshake waits made and iterations spent

vars == << backend, audio_state, tim2_ccr1, player_state, audio_buffer_len, audio_buffer_pos,
           codec_state, chip, wm8994, i2s_dma, i2s_dma_complete_flag, fg, op, ret, prev, log,
           run, pausedTicks, tc_count, stopped, buttons_build, system_tick, pin, btn, event,
           diff_since, pressed_since, advances, first_poll, press_events, spi3_i2spr, i2c >>

pwmVars == << audio_state, tim2_ccr1, log, run, pausedTicks >>

loopVars == << buttons_build, system_tick, pin, btn, event, diff_since, pressed_since, advances,
              first_poll, press_events >>

codecVars == << player_state, audio_buffer_len, audio_buffer_pos, codec_state, chip, wm8994,
                i2s_dma, i2s_dma_complete_flag, tc_count, spi3_i2spr, i2c >>

\* ---------------------------------------------------------------- quantization (pwm_audio.c)
Pow2(n) == 2 ^ n

RECURSIVE Log2(_)
Log2(n) == IF n < 2 THEN 0 ELSE 1 + Log2(n \div 2)

Abs(x) == IF x < 0 THEN -x ELSE x

\* Exponent k with 2^23 <= vol * 2^k / 100 < 2^24 (binary32 has a 24-bit significand).
RECURSIVE ScaleExp(_, _)
ScaleExp(vol, k) == IF vol * Pow2(k) >= 100 * Pow2(23) THEN k ELSE ScaleExp(vol, k + 1)

\* (float)vol / 100.0f, correctly rounded to binary32 (round to nearest, ties to even):
\* the value is m / 2^k.
get_volume_scale(vol) ==
    IF vol = 0 THEN [m |-> 0, k |-> 0]
    ELSE LET k == ScaleExp(vol, 0)
             q == (vol * Pow2(k)) \div 100
             r == (vol * Pow2(k)) % 100
             m == IF 2 * r > 100 \/ (2 * r = 100 /\ q % 2 = 1) THEN q + 1 ELSE q
         IN  IF m = Pow2(24) THEN [m |-> Pow2(23), k |-> k - 1] ELSE [m |-> m, k |-> k]

\* get_volume_scale over the whole uint8_t range of audio_state.volume that the driver stores.
VolumeScale == [vol \in 0..100 |-> get_volume_scale(vol)]

\* |(int32_t)(sample * volume_scale)| for a sample of magnitude a: the int16_t sample is
\* converted to binary32 exactly, the product is rounded to binary32, the conversion to int32_t
\* truncates toward zero. The exact product a * m (up to 39 bits) is kept as H * 4096 + L.
ScaledMagnitude(a, vol) ==
    LET sc == VolumeScale[vol]
    IN  IF a = 0 \/ sc.m = 0 THEN 0
        ELSE LET mh == sc.m \div 4096
                 ml == sc.m % 4096
                 B  == a * ml
                 H  == a * mh + (B \div 4096)
                 L  == B % 4096
                 sh == sc.k - 12
                 fl == H \div Pow2(sh)
                 R  == (H % Pow2(sh)) * 4096 + L
                 d  == Log2(H) - 11
                 up == d >= 1 /\ Pow2(sc.k) - R <= Pow2(d - 1)
             IN  IF up THEN fl + 1 ELSE fl

\* Mutant of ScaledSample: the sign of the sample is lost in the scaling.
ScaledSample_DropsSign(sample, vol) == ScaledMagnitude(Abs(sample), vol)

\* (int32_t)(sample * volume_scale): binary32 multiplication is symmetric in the sign.
ScaledSample(sample, vol) ==
    IF sample < 0 THEN -ScaledMagnitude(Abs(sample), vol) ELSE ScaledMagnitude(sample, vol)

\* Mutant of audio_output_sample: the duty is rounded to the nearest step and not clamped.
audio_output_sample_RoundsToNearest(sample, vol) ==
    ((ScaledSample(sample, vol) + 32768) * PWM_PERIOD + 32768) \div 65536

\* Mutant of audio_output_sample: the volume is not applied.
audio_output_sample_Unscaled(sample, vol) ==
    ((sample + 32768) * PWM_PERIOD) \div 65536

\* audio_output_sample: the duty count written to the compare register for one sample.
audio_output_sample(sample, vol) ==
    LET s0 == ScaledSample(sample, vol)
        s1 == IF s0 > 32767 THEN 32767 ELSE s0
        scaled_sample == IF s1 < -32768 THEN -32768 ELSE s1
        pwm_duty == ((scaled_sample + 32768) * PWM_PERIOD) \div 65536
    IN  IF pwm_duty > PWM_PERIOD - 1 THEN PWM_PERIOD - 1 ELSE pwm_duty

\* ---------------------------------------------------------------- codec chip registers
RECURSIVE BitAnd(_, _)
BitAnd(a, b) ==
    IF a = 0 \/ b = 0 THEN 0
    ELSE (a % 2) * (b % 2) + 2 * BitAnd(a \div 2, b \div 2)

RECURSIVE BitOr(_, _)
BitOr(a, b) ==
    IF a = 0 THEN b
    ELSE IF b = 0 THEN a
    ELSE (IF a % 2 = 1 \/ b % 2 = 1 THEN 1 ELSE 0) + 2 * BitOr(a \div 2, b \div 2)

\* Register addresses as they go out on the bus: codec_read_register and codec_write_register
\* send addr & 0xFF.
RegisterAddresses ==
    { BitAnd(a, 255) : a \in { WM8994_CHIP_ID, WM8994_POWER_MANAGEMENT_1,
                               WM8994_POWER_MANAGEMENT_2, WM8994_POWER_MANAGEMENT_3,
                               WM8994_LEFT_OUTPUT_VOLUME, WM8994_RIGHT_OUTPUT_VOLUME,
                               WM8994_OUTPUT_MIXER_1, WM8994_OUTPUT_MIXER_2,
                               WM8994_AUDIO_INTERFACE_1, WM8994_AUDIO_INTERFACE_2 } }

\* -1: not written by the driver since power-up.
RegistersAtReset == [a \in RegisterAddresses |-> -1]

\* No I2C transfer in progress.
I2cIdle ==
    [pc |-> "idle", call |-> "none", reg |-> 0, value |-> 0, data |-> << >>, len |-> 0, i |-> 0,
     trace |-> << >>, waits |-> 0, spins |-> 0, acked |-> TRUE]

\* ---------------------------------------------------------------- initial state
Init ==
    /\ backend \in {"pwm", "codec", "i2s"}
    /\ audio_state = [buffer |-> NULL, buffer_size |-> 0, sample_index |-> 0,
                      is_playing |-> 0, is_paused |-> 0, volume |-> INITIAL_VOLUME]
    /\ tim2_ccr1 = INITIAL_PULSE
    /\ player_state = [is_playing |-> 0, is_paused |-> 0, volume |-> INITIAL_VOLUME]
    /\ audio_buffer_len \in IF backend = "codec" THEN 0..MaxLen ELSE {0}
    /\ audio_buffer_pos = 0
    /\ codec_state = [is_initialized |-> 0, is_playing |-> 0, volume |-> INITIAL_VOLUME,
                      current_buffer |-> NULL, buffer_size |-> 0, buffer_position |-> 0]
    /\ chip \in IF backend = "codec" THEN {"wm8994", "other", "none"} ELSE {"wm8994"}
    /\ wm8994 = RegistersAtReset
    /\ i2s_dma = [state |-> "stopped", addr |-> NULL, ndtr |-> 0, tcif |-> 0, teif |-> 0]
    /\ i2s_dma_complete_flag = 0
    /\ fg = [pc |-> "idle", buffer |-> NULL, size |-> 0]
    /\ op = "init"
    /\ ret = "void"
    /\ prev = "Stopped"
    /\ log = << >>
    /\ run = -1
    /\ pausedTicks = FALSE
    /\ tc_count = 0
    /\ stopped = FALSE
    /\ buttons_build = "bare"
    /\ system_tick = 0
    /\ pin = 1
    /\ btn = [state |-> 0, press_time |-> 0, debounced |-> 0]
    /\ event = "none"
    /\ diff_since = -1
    /\ pressed_since = -1
    /\ advances = 0
    /\ first_poll = -1
    /\ press_events = 0
    /\ spi3_i2spr = -1
    /\ i2c = I2cIdle

\* ---------------------------------------------------------------- views of the state
\* PlaybackState as the two flags encode it (audio_is_playing is is_playing && !is_paused).
FlagState(st) ==
    IF st.is_playing = 0 THEN "Stopped"
    ELSE IF st.is_paused = 1 THEN "Paused" ELSE "Playing"

PwmState == FlagState(audio_state)

CtlState == FlagState(player_state)

PlaybackState == IF backend = "pwm" THEN PwmState ELSE CtlState

\* ---------------------------------------------------------------- PWM driver (pwm_audio.c)
audio_is_playing == audio_state.is_playing = 1 /\ audio_state.is_paused = 0

audio_get_position == audio_state.sample_index

\* Mutant of audio_play: the cursor is not reset when the new buffer is installed.
audio_play_KeepsIndex(buffer, size) ==
    /\ backend = "pwm"
    /\ op' = "play"
    /\ prev' = PlaybackState
    /\ ret' = "void"
    /\ IF buffer = NULL \/ size = 0
       THEN /\ UNCHANGED << audio_state, log, pausedTicks >>
            /\ run' = -1
       ELSE /\ audio_state' = [audio_state EXCEPT !.buffer = buffer, !.buffer_size = size,
                                                  !.is_playing = 1, !.is_paused = 0]
            /\ log' = << >>
            /\ run' = 0
            /\ pausedTicks' = FALSE
    /\ UNCHANGED << backend, tim2_ccr1 >>
    /\ UNCHANGED codecVars
    /\ UNCHANGED loopVars
    /\ stopped' = (stopped /\ (buffer = NULL \/ size = 0))
    /\ UNCHANGED fg

audio_play(buffer, size) ==
    /\ backend = "pwm"
    /\ op' = "play"
    /\ prev' = PlaybackState
    /\ ret' = "void"
    /\ IF buffer = NULL \/ size = 0
       THEN /\ UNCHANGED << audio_state, log, pausedTicks >>
            /\ run' = -1
       ELSE /\ audio_state' = [audio_state EXCEPT !.buffer = buffer, !.buffer_size = size,
                                                  !.sample_index = 0, !.is_playing = 1,
                                                  !.is_paused = 0]
            /\ log' = << >>
            /\ run' = 0
            /\ pausedTicks' = FALSE
    /\ UNCHANGED << backend, tim2_ccr1 >>
    /\ UNCHANGED codecVars
    /\ UNCHANGED loopVars
    /\ stopped' = (stopped /\ (buffer = NULL \/ size = 0))
    /\ UNCHANGED fg

audio_stop ==
    /\ backend = "pwm"
    /\ op' = "stop"
    /\ prev' = PlaybackState
    /\ ret' = "void"
    /\ audio_state' = [audio_state EXCEPT !.is_playing = 0, !.is_paused = 0, !.sample_index = 0]
    /\ tim2_ccr1' = PWM_PERIOD \div 2
    /\ run' = -1
    /\ UNCHANGED << backend, log, pausedTicks >>
    /\ UNCHANGED codecVars
    /\ UNCHANGED loopVars
    /\ stopped' = TRUE
    /\ UNCHANGED fg

\* Mutant of audio_pause: the wrong flag is written (is_playing cleared instead of is_paused set).
audio_pause_ClearsPlaying ==
    /\ backend = "pwm"
    /\ op' = "pause"
    /\ prev' = PlaybackState
    /\ ret' = "void"
    /\ audio_state' = IF audio_state.is_playing = 1
                      THEN [audio_state EXCEPT !.is_playing = 0]
                      ELSE audio_state
    /\ run' = -1
    /\ UNCHANGED << backend, tim2_ccr1, log, pausedTicks >>
    /\ UNCHANGED codecVars
    /\ UNCHANGED loopVars
    /\ UNCHANGED << fg, stopped >>

audio_pause ==
    /\ backend = "pwm"
    /\ op' = "pause"
    /\ prev' = PlaybackState
    /\ ret' = "void"
    /\ audio_state' = IF audio_state.is_playing = 1
                      THEN [audio_state EXCEPT !.is_paused = 1]
                      ELSE audio_state
    /\ run' = -1
    /\ UNCHANGED << backend, tim2_ccr1, log, pausedTicks >>
    /\ UNCHANGED codecVars
    /\ UNCHANGED loopVars
    /\ UNCHANGED << fg, stopped >>

audio_resume ==
    /\ backend = "pwm"
    /\ op' = "resume"
    /\ prev' = PlaybackState
    /\ ret' = "void"
    /\ audio_state' = IF audio_state.is_paused = 1
                      THEN [audio_state EXCEPT !.is_paused = 0]
                      ELSE audio_state
    /\ run' = -1
    /\ UNCHANGED << backend, tim2_ccr1, log, pausedTicks >>
    /\ UNCHANGED codecVars
    /\ UNCHANGED loopVars
    /\ UNCHANGED << fg, stopped >>

\* Mutant of audio_set_volume: the call also rewinds the cursor.
audio_set_volume_Rewinds(volume) ==
    /\ backend = "pwm"
    /\ op' = "set_volume"
    /\ prev' = PlaybackState
    /\ ret' = "void"
    /\ audio_state' = [audio_state EXCEPT !.volume = IF volume > 100 THEN 100 ELSE volume,
                                          !.sample_index = 0]
    /\ run' = -1
    /\ UNCHANGED << backend, tim2_ccr1, log, pausedTicks >>
    /\ UNCHANGED codecVars
    /\ UNCHANGED loopVars
    /\ UNCHANGED << fg, stopped >>

audio_set_volume(volume) ==
    /\ backend = "pwm"
    /\ op' = "set_volume"
    /\ prev' = PlaybackState
    /\ ret' = "void"
    /\ audio_state' = [audio_state EXCEPT !.volume = IF volume > 100 THEN 100 ELSE volume]
    /\ run' = -1
    /\ UNCHANGED << backend, tim2_ccr1, log, pausedTicks >>
    /\ UNCHANGED codecVars
    /\ UNCHANGED loopVars
    /\ UNCHANGED << fg, stopped >>

\* buffer[index] as the handler reads it: the element when the index is inside the caller's
\* array; outside it the read is undefined and may yield any int16_t value.
ReadSample(buffer, index) ==
    IF index + 1 \in DOMAIN buffer THEN { buffer[index + 1] } ELSE Samples

\* Mutant of TIM2_IRQHandler: the handler tests is_playing only, not is_paused.
TIM2_IRQHandler_IgnoresPause ==
    /\ backend = "pwm"
    /\ op' = "tick"
    /\ prev' = PlaybackState
    /\ ret' = "void"
    /\ IF audio_state.is_playing = 1
       THEN IF audio_state.sample_index < audio_state.buffer_size
            THEN \E sample \in ReadSample(audio_state.buffer, audio_state.sample_index) :
                     /\ audio_state' = [audio_state EXCEPT !.sample_index = @ + 1]
                     /\ tim2_ccr1' = audio_output_sample(sample, audio_state.volume)
                     /\ log' = Append(log, << audio_state.sample_index, sample >>)
            ELSE /\ audio_state' = [audio_state EXCEPT !.is_playing = 0]
                 /\ UNCHANGED << tim2_ccr1, log >>
       ELSE UNCHANGED << audio_state, tim2_ccr1, log >>
    /\ run' = IF run >= 0 /\ run <= MaxLen THEN run + 1 ELSE run
    /\ pausedTicks' = (pausedTicks \/ (audio_state.is_playing = 1 /\ audio_state.is_paused = 1))
    /\ UNCHANGED backend
    /\ UNCHANGED codecVars
    /\ UNCHANGED loopVars
    /\ UNCHANGED << fg, stopped >>

\* The sample timer runs from pwm_audio_init on, so the update interrupt fires in every state.
TIM2_IRQHandler ==
    /\ backend = "pwm"
    /\ op' = "tick"
    /\ prev' = PlaybackState
    /\ ret' = "void"
    /\ IF audio_state.is_playing = 1 /\ audio_state.is_paused = 0
       THEN IF audio_state.sample_index < audio_state.buffer_size
            THEN \E sample \in ReadSample(audio_state.buffer, audio_state.sample_index) :
                     /\ audio_state' = [audio_state EXCEPT !.sample_index = @ + 1]
                     /\ tim2_ccr1' = audio_output_sample(sample, audio_state.volume)
                     /\ log' = Append(log, << audio_state.sample_index, sample >>)
            ELSE /\ audio_state' = [audio_state EXCEPT !.is_playing = 0]
                 /\ UNCHANGED << tim2_ccr1, log >>
       ELSE UNCHANGED << audio_state, tim2_ccr1, log >>
    /\ run' = IF run >= 0 /\ run <= MaxLen THEN run + 1 ELSE run
    /\ pausedTicks' = (pausedTicks \/ (audio_state.is_playing = 1 /\ audio_state.is_paused = 1))
    /\ UNCHANGED backend
    /\ UNCHANGED codecVars
    /\ UNCHANGED loopVars
    /\ UNCHANGED << fg, stopped >>

PwmNext ==
    \/ \E call \in PlayCalls : audio_play(call[1], call[2])
    \/ audio_stop
    \/ audio_pause
    \/ audio_resume
    \/ \E v \in VolumeRequests : audio_set_volume(v)
    \/ TIM2_IRQHandler

\* ---------------------------------------------------------------- PWM driver, statement by statement
\* The foreground runs one call at a time; TIM2_IRQHandler may run between any two of its
\* statements. Every field of audio_state is volatile, so the stores happen in program order.
\* fg.pc names the source line of pwm_audio.c about to execute.
Idle == [pc |-> "idle", buffer |-> NULL, size |-> 0]

\* Arguments of audio_play in the statement-level runs: arrays over the two int16_t extremes
\* (what the interleavings depend on is the length), and the rejected forms.
StepCalls ==
    { << b, Len(b) >> : b \in UNION { [1..n -> {-32768, 32767}] : n \in 1..MaxLen } }
    \cup { << NULL, 1 >>, << << 32767 >>, 0 >> }

\* One foreground statement: from line pc to line next_pc ("idle": the call returns).
FgStep(pc, next_pc, new_state, new_ccr, fn) ==
    /\ backend = "pwm"
    /\ fg.pc = pc
    /\ audio_state' = new_state
    /\ tim2_ccr1' = new_ccr
    /\ fg' = IF next_pc = "idle" THEN Idle ELSE [fg EXCEPT !.pc = next_pc]
    /\ IF next_pc = "idle"
       THEN op' = fn /\ ret' = "void" /\ prev' = PlaybackState
       ELSE UNCHANGED << op, ret, prev >>
    /\ run' = -1
    /\ UNCHANGED << backend, pausedTicks >>
    /\ UNCHANGED codecVars
    /\ UNCHANGED loopVars

\* audio_play, lines 197-201: the argument check and the store of the buffer pointer.
audio_play_L201(buffer, size) ==
    /\ fg.pc = "idle"
    /\ IF buffer = NULL \/ size = 0
       THEN /\ FgStep("idle", "idle", audio_state, tim2_ccr1, "play")
            /\ UNCHANGED << log, stopped >>
       ELSE /\ backend = "pwm"
            /\ audio_state' = [audio_state EXCEPT !.buffer = buffer]
            /\ fg' = [pc |-> "L202", buffer |-> buffer, size |-> size]
            /\ stopped' = FALSE
            /\ run' = -1
            /\ UNCHANGED << backend, tim2_ccr1, op, ret, prev, log, pausedTicks >>
            /\ UNCHANGED codecVars
            /\ UNCHANGED loopVars

audio_play_L202 ==
    /\ FgStep("L202", "L203", [audio_state EXCEPT !.buffer_size = fg.size], tim2_ccr1, "play")
    /\ UNCHANGED << log, stopped >>

audio_play_L203 ==
    /\ FgStep("L203", "L204", [audio_state EXCEPT !.sample_index = 0], tim2_ccr1, "play")
    /\ UNCHANGED << log, stopped >>

audio_play_L204 ==
    /\ FgStep("L204", "L205", [audio_state EXCEPT !.is_playing = 1], tim2_ccr1, "play")
    /\ UNCHANGED << log, stopped >>

audio_play_L205 ==
    /\ FgStep("L205", "idle", [audio_state EXCEPT !.is_paused = 0], tim2_ccr1, "play")
    /\ log' = << >>
    /\ UNCHANGED stopped

\* Mutant of audio_stop_L212: the playing flag is left set.
audio_stop_L212_KeepsPlaying ==
    /\ FgStep("idle", "L213", audio_state, tim2_ccr1, "stop")
    /\ UNCHANGED << log, stopped >>

audio_stop_L212 ==
    /\ FgStep("idle", "L213", [audio_state EXCEPT !.is_playing = 0], tim2_ccr1, "stop")
    /\ UNCHANGED << log, stopped >>

audio_stop_L213 ==
    /\ FgStep("L213", "L214", [audio_state EXCEPT !.is_paused = 0], tim2_ccr1, "stop")
    /\ UNCHANGED << log, stopped >>

audio_stop_L214 ==
    /\ FgStep("L214", "L217", [audio_state EXCEPT !.sample_index = 0], tim2_ccr1, "stop")
    /\ UNCHANGED << log, stopped >>

audio_stop_L217 ==
    /\ FgStep("L217", "idle", audio_state, PWM_PERIOD \div 2, "stop")
    /\ stopped' = TRUE
    /\ UNCHANGED log

\* audio_pause, line 224: the test of is_playing.
audio_pause_L224 ==
    /\ FgStep("idle", IF audio_state.is_playing = 1 THEN "L225" ELSE "idle",
              audio_state, tim2_ccr1, "pause")
    /\ UNCHANGED << log, stopped >>

audio_pause_L225 ==
    /\ FgStep("L225", "idle", [audio_state EXCEPT !.is_paused = 1], tim2_ccr1, "pause")
    /\ UNCHANGED << log, stopped >>

\* audio_resume, line 233: the test of is_paused.
audio_resume_L233 ==
    /\ FgStep("idle", IF audio_state.is_paused = 1 THEN "L234" ELSE "idle",
              audio_state, tim2_ccr1, "resume")
    /\ UNCHANGED << log, stopped >>

audio_resume_L234 ==
    /\ FgStep("L234", "idle", [audio_state EXCEPT !.is_paused = 0], tim2_ccr1, "resume")
    /\ UNCHANGED << log, stopped >>

\* audio_set_volume is one byte store.
audio_set_volume_L275(volume) ==
    /\ fg.pc = "idle"
    /\ audio_set_volume(volume)

StepPwmNext ==
    \/ \E call \in StepCalls : audio_play_L201(call[1], call[2])
    \/ audio_play_L202
    \/ audio_play_L203
    \/ audio_play_L204
    \/ audio_play_L205
    \/ audio_stop_L212
    \/ audio_stop_L213
    \/ audio_stop_L214
    \/ audio_stop_L217
    \/ audio_pause_L224
    \/ audio_pause_L225
    \/ audio_resume_L233
    \/ audio_resume_L234
    \/ \E v \in VolumeRequests : audio_set_volume_L275(v)
    \/ TIM2_IRQHandler

\* ---------------------------------------------------------------- I2S DMA as driven by codec.c
\* HAL_I2S_Transmit_DMA may refuse the transfer (hal_ok = FALSE); then nothing is armed.
HAL_I2S_Transmit_DMA(dma, buffer, size, hal_ok) ==
    IF hal_ok THEN [state |-> "running", addr |-> buffer, ndtr |-> size, tcif |-> 0, teif |-> 0] ELSE dma

HAL_I2S_DMAPause(dma) ==
    IF dma.state = "running" THEN [dma EXCEPT !.state = "paused"] ELSE dma

HAL_I2S_DMAResume(dma) ==
    IF dma.state = "paused" THEN [dma EXCEPT !.state = "running"] ELSE dma

HAL_I2S_DMAStop(dma) ==
    [state |-> "stopped", addr |-> NULL, ndtr |-> 0, tcif |-> 0, teif |-> 0]

\* ---------------------------------------------------------------- I2C master (i2c.c)
\* acked: the chip answers, so every status bit the driver waits for (SB, ADDR, TXE, BTF,
\* RXNE) appears; otherwise the bounded wait runs out.
i2c_wait_event(acked) == IF acked THEN 1 ELSE 0

\* i2c_start, i2c_send_address and i2c_write_byte call i2c_wait_event and drop its result, and
\* so does i2c_write for the BTF wait: the status depends on the arguments only.
i2c_write(bus, data, acked) ==
    IF Len(data) = 0 \/ bus < 1 \/ bus > 3 THEN -1
    ELSE LET btf == i2c_wait_event(acked) IN 0

i2c_read(bus, len, acked) ==
    IF len = 0 \/ bus < 1 \/ bus > 3 THEN -1
    ELSE LET rxne == i2c_wait_event(acked) IN 0

i2c_write_read(bus, reg, len, acked) ==
    IF len = 0 \/ bus < 1 \/ bus > 3 THEN -1
    ELSE IF i2c_write(bus, << reg >>, acked) # 0 THEN -1
    ELSE IF i2c_read(bus, len, acked) # 0 THEN -1
    ELSE 0

\* ---------------------------------------------------------------- codec driver (codec.c)
\* The chip answers on the bus, so every awaited status bit appears.
Acked == chip # "none"

\* The two bytes i2c_read_byte hands back for the identity register: those of a WM8994, those
\* of another device, and, when nothing answers, whatever the I2C data register holds after the
\* wait for RXNE ran out.
IdentityReads ==
    IF chip = "wm8994" THEN { << 137, 148 >> }
    ELSE IF chip = "other" THEN { << 0, 0 >> }
    ELSE { << 137, 148 >>, << 0, 0 >> }

\* Status and the 16-bit value assembled from the two bytes read.
codec_read_register(addr, acked, data) ==
    IF i2c_write_read(I2C_BUS_1, BitAnd(addr, 255), 2, acked) # 0
    THEN [status |-> "CODEC_TIMEOUT", value |-> 0]
    ELSE [status |-> "CODEC_OK", value |-> BitOr(data[1] * 256, data[2])]

\* Status and the chip's registers afterwards: the value arrives only when the chip answers.
codec_write_register(regs, addr, value, acked) ==
    LET data == << BitAnd(addr, 255), BitAnd(value \div 256, 255), BitAnd(value, 255) >>
    IN  [status |-> IF i2c_write(I2C_BUS_1, data, acked) # 0 THEN "CODEC_TIMEOUT"
                    ELSE "CODEC_OK",
         regs |-> IF acked THEN [regs EXCEPT ![data[1]] = value] ELSE regs]

\* Each operator below gives the status returned and the codec state, chip registers and DMA
\* state left behind.
\* codec_set_volume clamps the request to 100, stores it and writes 0xC0 | (volume * 127) / 100
\* to both output-volume registers; the statuses of the writes are dropped.
codec_set_volume(cs, regs, volume, acked) ==
    LET vol == IF volume > 100 THEN 100 ELSE volume
        dac_vol == (vol * 127) \div 100
        left == codec_write_register(regs, WM8994_LEFT_OUTPUT_VOLUME, BitOr(192, dac_vol), acked)
        right == codec_write_register(left.regs, WM8994_RIGHT_OUTPUT_VOLUME,
                                      BitOr(192, dac_vol), acked)
    IN  [status |-> "CODEC_OK", cs |-> [cs EXCEPT !.volume = vol], regs |-> right.regs]

\* The register writes of codec_configure_chip in program order; their statuses are dropped.
RECURSIVE WriteRegisters(_, _, _)
WriteRegisters(regs, writes, acked) ==
    IF writes = << >> THEN regs
    ELSE WriteRegisters(codec_write_register(regs, Head(writes)[1], Head(writes)[2], acked).regs,
                        Tail(writes), acked)

codec_configure_chip(cs, regs, acked, data) ==
    LET id == codec_read_register(WM8994_CHIP_ID, acked, data)
    IN  IF id.status # "CODEC_OK" THEN [status |-> "CODEC_ERROR", cs |-> cs, regs |-> regs]
        ELSE IF BitAnd(id.value, 65280) # 35072
        THEN [status |-> "CODEC_ERROR", cs |-> cs, regs |-> regs]
        ELSE LET r1 == WriteRegisters(regs, << << 0, 0 >>,
                                               << WM8994_POWER_MANAGEMENT_1, 4099 >>,
                                               << WM8994_POWER_MANAGEMENT_2, 0 >>,
                                               << WM8994_POWER_MANAGEMENT_3, 0 >>,
                                               << WM8994_AUDIO_INTERFACE_1, 0 >>,
                                               << WM8994_AUDIO_INTERFACE_2, 16384 >> >>, acked)
                 v == codec_set_volume(cs, r1, cs.volume, acked)
                 r2 == WriteRegisters(v.regs, << << WM8994_OUTPUT_MIXER_1, 1 >>,
                                                 << WM8994_OUTPUT_MIXER_2, 1 >> >>, acked)
             IN  [status |-> "CODEC_OK", cs |-> v.cs, regs |-> r2]

\* Mutant of codec_set_sample_rate: an unsupported rate falls back to the 44.1 kHz setting.
codec_set_sample_rate_FallsBack(regs, rate, acked) ==
    codec_write_register(regs, WM8994_AUDIO_INTERFACE_2,
                         IF rate = CODEC_SAMPLE_RATE_96000 THEN 32768 ELSE 16384, acked)

\* An unsupported rate returns before any write; 44100 and 48000 select the same value.
codec_set_sample_rate(regs, rate, acked) ==
    IF rate \notin { CODEC_SAMPLE_RATE_44100, CODEC_SAMPLE_RATE_48000, CODEC_SAMPLE_RATE_96000 }
    THEN [status |-> "CODEC_ERROR", regs |-> regs]
    ELSE codec_write_register(regs, WM8994_AUDIO_INTERFACE_2,
                              IF rate = CODEC_SAMPLE_RATE_96000 THEN 32768 ELSE 16384, acked)

codec_init(cs, regs, acked, data) ==
    IF cs.is_initialized = 1 THEN [status |-> "CODEC_OK", cs |-> cs, regs |-> regs]
    ELSE LET r == codec_configure_chip(cs, regs, acked, data)
         IN  IF r.status # "CODEC_OK" THEN [status |-> "CODEC_ERROR", cs |-> r.cs, regs |-> r.regs]
             ELSE [status |-> "CODEC_OK", cs |-> [r.cs EXCEPT !.is_initialized = 1],
                   regs |-> r.regs]

codec_play(cs, dma, buffer, size, hal_ok) ==
    IF cs.is_initialized = 0 THEN [status |-> "CODEC_ERROR", cs |-> cs, dma |-> dma]
    ELSE LET cs1 == [cs EXCEPT !.current_buffer = buffer, !.buffer_size = size,
                               !.buffer_position = 0, !.is_playing = 1]
         IN  [status |-> IF hal_ok THEN "CODEC_OK" ELSE "CODEC_ERROR",
              cs |-> cs1,
              dma |-> HAL_I2S_Transmit_DMA(dma, buffer, size, hal_ok)]

codec_stop(cs, dma) ==
    [status |-> "CODEC_OK",
     cs |-> [cs EXCEPT !.is_playing = 0],
     dma |-> HAL_I2S_DMAStop(HAL_I2S_DMAPause(dma))]

codec_pause(cs, dma) ==
    [status |-> "CODEC_OK",
     cs |-> [cs EXCEPT !.is_playing = 0],
     dma |-> HAL_I2S_DMAPause(dma)]

codec_resume(cs, dma) ==
    IF cs.current_buffer = NULL THEN [status |-> "CODEC_ERROR", cs |-> cs, dma |-> dma]
    ELSE [status |-> "CODEC_OK",
          cs |-> [cs EXCEPT !.is_playing = 1],
          dma |-> HAL_I2S_DMAResume(dma)]

codec_get_position == codec_state.buffer_position

\* The I2S interrupt is live once codec_init has configured I2S3.
codec_i2s_interrupt_handler ==
    /\ backend = "codec"
    /\ codec_state.is_initialized = 1
    /\ codec_state.buffer_position < MaxPos
    /\ op' = "i2s_irq"
    /\ prev' = PlaybackState
    /\ ret' = "void"
    /\ codec_state' = IF codec_state.is_playing = 1
                      THEN [codec_state EXCEPT !.buffer_position = @ + 1]
                      ELSE codec_state
    /\ UNCHANGED loopVars
    /\ UNCHANGED << backend, chip, spi3_i2spr, i2c, wm8994, player_state, audio_buffer_len, audio_buffer_pos, i2s_dma,
                    i2s_dma_complete_flag, tc_count >>
    /\ UNCHANGED pwmVars
    /\ UNCHANGED << fg, stopped >>

\* ---------------------------------------------------------------- DMA1 stream 5 and its handler
\* The stream moves one sample word to the I2S data register. It is configured without
\* circular mode (i2s_init): when the last word has gone the hardware raises TCIF5 and
\* disables the stream.
DMA1_Stream5_Transfer ==
    /\ backend \in {"codec", "i2s"}
    /\ i2s_dma.state = "running"
    /\ i2s_dma.ndtr > 0
    /\ op' = "dma"
    /\ prev' = PlaybackState
    /\ ret' = "void"
    /\ i2s_dma' = IF i2s_dma.ndtr = 1
                  THEN [i2s_dma EXCEPT !.ndtr = 0, !.tcif = 1, !.state = "stopped"]
                  ELSE [i2s_dma EXCEPT !.ndtr = @ - 1]
    /\ UNCHANGED loopVars
    /\ UNCHANGED << backend, chip, spi3_i2spr, i2c, wm8994, player_state, audio_buffer_len, audio_buffer_pos, codec_state,
                    i2s_dma_complete_flag, tc_count >>
    /\ UNCHANGED pwmVars
    /\ UNCHANGED << fg, stopped >>

\* Mutant of DMA1_Stream5_IRQHandler: the handler starts an I2C transfer and waits for SB.
DMA1_Stream5_IRQHandler_StartsTransfer ==
    /\ backend \in {"codec", "i2s"}
    /\ i2s_dma.tcif = 1
    /\ op' = "dma_tc"
    /\ prev' = PlaybackState
    /\ ret' = "void"
    /\ i2s_dma_complete_flag' = 1
    /\ i2s_dma' = [i2s_dma EXCEPT !.tcif = 0]
    /\ tc_count' = tc_count + 1
    /\ i2c' = [i2c EXCEPT !.trace = Append(@, << "START", 0 >>), !.waits = @ + 1]
    /\ UNCHANGED loopVars
    /\ UNCHANGED << backend, chip, spi3_i2spr, wm8994, player_state, audio_buffer_len, audio_buffer_pos, codec_state >>
    /\ UNCHANGED pwmVars
    /\ UNCHANGED << fg, stopped >>

\* The transfer-complete interrupt is requested while TCIF5 is set (TCIE is the only
\* interrupt enable i2s_init sets).
DMA1_Stream5_IRQHandler ==
    /\ backend \in {"codec", "i2s"}
    /\ i2s_dma.tcif = 1
    /\ op' = "dma_tc"
    /\ prev' = PlaybackState
    /\ ret' = "void"
    /\ i2s_dma_complete_flag' = 1
    /\ i2s_dma' = [i2s_dma EXCEPT !.tcif = 0]
    /\ tc_count' = tc_count + 1
    /\ UNCHANGED loopVars
    /\ UNCHANGED << backend, chip, spi3_i2spr, i2c, wm8994, player_state, audio_buffer_len, audio_buffer_pos, codec_state >>
    /\ UNCHANGED pwmVars
    /\ UNCHANGED << fg, stopped >>

\* A transfer error on the stream (a bus error on a DMA access): the hardware sets TEIF5 and
\* disables the stream. i2s_init enables the transfer-complete interrupt only, so no interrupt
\* is requested.
DMA1_Stream5_TransferError ==
    /\ backend \in {"codec", "i2s"}
    /\ i2s_dma.state = "running"
    /\ i2s_dma.ndtr > 0
    /\ op' = "dma_error"
    /\ prev' = PlaybackState
    /\ ret' = "void"
    /\ i2s_dma' = [i2s_dma EXCEPT !.teif = 1, !.state = "stopped"]
    /\ UNCHANGED loopVars
    /\ UNCHANGED << backend, chip, spi3_i2spr, i2c, wm8994, player_state, audio_buffer_len, audio_buffer_pos,
                    codec_state, i2s_dma_complete_flag, tc_count >>
    /\ UNCHANGED pwmVars
    /\ UNCHANGED << fg, stopped >>

\* ---------------------------------------------------------------- I2S transport driver (i2s.c)
\* Arguments of i2s_start_dma: the sample array with a length, and the rejected forms.
I2sCalls == { << audio_buffer, n >> : n \in 0..MaxLen } \cup { << NULL, 1 >> }

i2s_dma_complete == i2s_dma_complete_flag

\* Sample rates i2s_init is called with: the values of i2s_sample_rate_t.
I2sRates == { I2S_SR_44100, I2S_SR_48000, I2S_SR_96000 }

\* i2s_calculate_prescaler: the two uint8_t results, from the 42 MHz APB1 clock and
\* bit_rate = sample_rate * 32 * 2. The products are uint32_t and stay below 2^24 for the
\* rates of i2s_sample_rate_t, so nothing wraps.
i2s_calculate_prescaler(sample_rate) ==
    LET pclk == 42000000
        bit_rate == sample_rate * 32 * 2
        div == pclk \div (2 * bit_rate)
    IN  IF div <= 1 THEN [prescaler |-> 1, lin_pres |-> 0]
        ELSE IF div <= 255 THEN [prescaler |-> div, lin_pres |-> 0]
        ELSE [prescaler |-> 255, lin_pres |-> ((div + 254) \div 255) % 256]

\* The word i2s_init stores in SPI3->I2SPR: I2SDIV in bits 0-7, ODD from bit 8, MCKOE bit 9.
I2sprWord(sample_rate) ==
    LET p == i2s_calculate_prescaler(sample_rate)
    IN  BitOr(BitOr(p.prescaler, p.lin_pres * 256), 512)

I2SDIV(word) == word % 256

ODD(word) == (word \div 256) % 2

i2s_init(sample_rate) ==
    /\ backend = "i2s"
    /\ fg.pc = "idle"
    /\ op' = "i2s_init"
    /\ spi3_i2spr' = I2sprWord(sample_rate)
    /\ prev' = PlaybackState
    /\ ret' = "void"
    /\ i2s_dma' = [i2s_dma EXCEPT !.state = "stopped"]
    /\ i2s_dma_complete_flag' = 0
    /\ UNCHANGED loopVars
    /\ UNCHANGED << backend, chip, i2c, wm8994, player_state, audio_buffer_len, audio_buffer_pos, codec_state,
                    tc_count >>
    /\ UNCHANGED pwmVars
    /\ UNCHANGED << fg, stopped >>

i2s_start_dma(buffer, samples) ==
    /\ backend = "i2s"
    /\ fg.pc = "idle"
    /\ op' = "i2s_start_dma"
    /\ prev' = PlaybackState
    /\ ret' = "void"
    /\ IF buffer = NULL \/ samples = 0
       THEN UNCHANGED << i2s_dma, i2s_dma_complete_flag, tc_count, stopped >>
       ELSE /\ i2s_dma' = [state |-> "running", addr |-> buffer, ndtr |-> samples, tcif |-> 0, teif |-> 0]
            /\ i2s_dma_complete_flag' = 0
            /\ tc_count' = 0
            /\ stopped' = FALSE
    /\ UNCHANGED loopVars
    /\ UNCHANGED << backend, chip, spi3_i2spr, i2c, wm8994, player_state, audio_buffer_len, audio_buffer_pos, codec_state >>
    /\ UNCHANGED pwmVars
    /\ UNCHANGED fg

\* Mutant of i2s_stop: stopping the stream also raises the completion flag.
i2s_stop_SetsComplete ==
    /\ backend = "i2s"
    /\ fg.pc = "idle"
    /\ op' = "i2s_stop"
    /\ prev' = PlaybackState
    /\ ret' = "void"
    /\ i2s_dma' = [i2s_dma EXCEPT !.state = "stopped"]
    /\ stopped' = TRUE
    /\ i2s_dma_complete_flag' = 1
    /\ UNCHANGED loopVars
    /\ UNCHANGED << backend, chip, spi3_i2spr, i2c, wm8994, player_state, audio_buffer_len, audio_buffer_pos, codec_state,
                    tc_count >>
    /\ UNCHANGED pwmVars
    /\ UNCHANGED fg

i2s_stop ==
    /\ backend = "i2s"
    /\ fg.pc = "idle"
    /\ op' = "i2s_stop"
    /\ prev' = PlaybackState
    /\ ret' = "void"
    /\ i2s_dma' = [i2s_dma EXCEPT !.state = "stopped"]
    /\ stopped' = TRUE
    /\ UNCHANGED loopVars
    /\ UNCHANGED << backend, chip, spi3_i2spr, i2c, wm8994, player_state, audio_buffer_len, audio_buffer_pos, codec_state,
                    i2s_dma_complete_flag, tc_count >>
    /\ UNCHANGED pwmVars
    /\ UNCHANGED fg

I2sNext ==
    \/ \E sample_rate \in I2sRates : i2s_init(sample_rate)
    \/ \E call \in I2sCalls : i2s_start_dma(call[1], call[2])
    \/ i2s_stop
    \/ DMA1_Stream5_Transfer
    \/ DMA1_Stream5_IRQHandler

\* ---------------------------------------------------------------- playback controller (player.c)
\* codec_init runs codec_i2s_init, that is i2s_init(I2S_SR_44100), before it configures the
\* chip; the stream is idle and the completion flag clear whenever that happens, so of
\* i2s_init's stores only the prescaler word shows.
player_init(acked, data) ==
    /\ backend = "codec"
    /\ op' = "init"
    /\ prev' = PlaybackState
    /\ LET r == codec_init(codec_state, wm8994, acked, data)
       IN  /\ codec_state' = r.cs
           /\ wm8994' = r.regs
           /\ ret' = IF r.status # "CODEC_OK" THEN "PLAYER_ERROR" ELSE "PLAYER_OK"
    /\ spi3_i2spr' = IF codec_state.is_initialized = 1 THEN spi3_i2spr
                      ELSE I2sprWord(I2S_SR_44100)
    /\ UNCHANGED loopVars
    /\ UNCHANGED << backend, chip, i2c, player_state, audio_buffer_len, audio_buffer_pos, i2s_dma,
                    i2s_dma_complete_flag, tc_count >>
    /\ UNCHANGED pwmVars
    /\ UNCHANGED << fg, stopped >>

player_play(hal_ok) ==
    /\ backend = "codec"
    /\ op' = "play"
    /\ prev' = PlaybackState
    /\ IF audio_buffer_len = 0
       THEN /\ ret' = "PLAYER_ERROR_NO_FILE"
            /\ UNCHANGED << player_state, audio_buffer_pos, codec_state, i2s_dma, tc_count >>
       ELSE LET r == codec_play(codec_state, i2s_dma, audio_buffer, audio_buffer_len, hal_ok)
            IN  /\ player_state' = [player_state EXCEPT !.is_playing = 1, !.is_paused = 0]
                /\ audio_buffer_pos' = 0
                /\ codec_state' = r.cs
                /\ i2s_dma' = r.dma
                /\ tc_count' = IF r.dma # i2s_dma THEN 0 ELSE tc_count
                /\ ret' = IF r.status # "CODEC_OK" THEN "PLAYER_ERROR" ELSE "PLAYER_OK"
    /\ UNCHANGED loopVars
    /\ UNCHANGED << backend, chip, spi3_i2spr, i2c, wm8994, audio_buffer_len, i2s_dma_complete_flag >>
    /\ UNCHANGED pwmVars
    /\ stopped' = (stopped /\ audio_buffer_len = 0)
    /\ UNCHANGED fg

player_pause ==
    /\ backend = "codec"
    /\ op' = "pause"
    /\ prev' = PlaybackState
    /\ IF player_state.is_playing = 0
       THEN /\ ret' = "PLAYER_ERROR"
            /\ UNCHANGED << player_state, codec_state, i2s_dma >>
       ELSE LET r == codec_pause(codec_state, i2s_dma)
            IN  /\ player_state' = [player_state EXCEPT !.is_paused = 1]
                /\ codec_state' = r.cs
                /\ i2s_dma' = r.dma
                /\ ret' = "PLAYER_OK"
    /\ UNCHANGED loopVars
    /\ UNCHANGED << backend, chip, spi3_i2spr, i2c, wm8994, audio_buffer_len, audio_buffer_pos, i2s_dma_complete_flag,
                    tc_count >>
    /\ UNCHANGED pwmVars
    /\ UNCHANGED << fg, stopped >>

player_resume ==
    /\ backend = "codec"
    /\ op' = "resume"
    /\ prev' = PlaybackState
    /\ IF player_state.is_paused = 0
       THEN /\ ret' = "PLAYER_ERROR"
            /\ UNCHANGED << player_state, codec_state, i2s_dma >>
       ELSE LET r == codec_resume(codec_state, i2s_dma)
            IN  /\ player_state' = [player_state EXCEPT !.is_paused = 0]
                /\ codec_state' = r.cs
                /\ i2s_dma' = r.dma
                /\ ret' = "PLAYER_OK"
    /\ UNCHANGED loopVars
    /\ UNCHANGED << backend, chip, spi3_i2spr, i2c, wm8994, audio_buffer_len, audio_buffer_pos, i2s_dma_complete_flag,
                    tc_count >>
    /\ UNCHANGED pwmVars
    /\ UNCHANGED << fg, stopped >>

player_stop ==
    /\ backend = "codec"
    /\ op' = "stop"
    /\ prev' = PlaybackState
    /\ LET r == codec_stop(codec_state, i2s_dma)
       IN  /\ player_state' = [player_state EXCEPT !.is_playing = 0, !.is_paused = 0]
           /\ codec_state' = r.cs
           /\ i2s_dma' = r.dma
    /\ audio_buffer_pos' = 0
    /\ ret' = "PLAYER_OK"
    /\ UNCHANGED loopVars
    /\ UNCHANGED << backend, chip, spi3_i2spr, i2c, wm8994, audio_buffer_len, i2s_dma_complete_flag, tc_count >>
    /\ UNCHANGED pwmVars
    /\ stopped' = TRUE
    /\ UNCHANGED fg

player_set_volume(volume, acked) ==
    /\ backend = "codec"
    /\ op' = "set_volume"
    /\ prev' = PlaybackState
    /\ IF volume > 100
       THEN /\ ret' = "PLAYER_ERROR"
            /\ UNCHANGED << player_state, codec_state, wm8994 >>
       ELSE LET r == codec_set_volume(codec_state, wm8994, volume, acked)
            IN  /\ player_state' = [player_state EXCEPT !.volume = volume]
                /\ codec_state' = r.cs
                /\ wm8994' = r.regs
                /\ ret' = "PLAYER_OK"
    /\ UNCHANGED << backend, chip, spi3_i2spr, i2c, audio_buffer_len, audio_buffer_pos, i2s_dma,
                    i2s_dma_complete_flag, tc_count >>
    /\ UNCHANGED pwmVars
    /\ UNCHANGED << fg, stopped >>

\* codec_set_sample_rate as the codec API offers it (codec.h); no caller in player.c.
SampleRates == { CODEC_SAMPLE_RATE_44100, CODEC_SAMPLE_RATE_48000, CODEC_SAMPLE_RATE_96000,
                 22050, 0 }

set_sample_rate(rate, acked) ==
    /\ backend = "codec"
    /\ op' = "set_sample_rate"
    /\ prev' = PlaybackState
    /\ LET r == codec_set_sample_rate(wm8994, rate, acked)
       IN  /\ wm8994' = r.regs
           /\ ret' = r.status
    /\ UNCHANGED loopVars
    /\ UNCHANGED << backend, chip, spi3_i2spr, i2c, player_state, audio_buffer_len, audio_buffer_pos, codec_state,
                    i2s_dma, i2s_dma_complete_flag, tc_count >>
    /\ UNCHANGED pwmVars
    /\ UNCHANGED << fg, stopped >>

player_get_position == codec_get_position \div CODEC_SAMPLE_RATE_44100

\* ---------------------------------------------------------------- volume buttons (main.c)
\* uint8_t new_vol = state->volume + VOLUME_STEP, limited to 100.
app_button_vol_up(acked) ==
    LET new_vol == (player_state.volume + VOLUME_STEP) % 256
    IN  player_set_volume(IF new_vol > 100 THEN 100 ELSE new_vol, acked)

\* int new_vol = (int)state->volume - VOLUME_STEP, limited to 0.
app_button_vol_down(acked) ==
    LET new_vol == player_state.volume - VOLUME_STEP
    IN  player_set_volume(IF new_vol < 0 THEN 0 ELSE new_vol, acked)

\* ---------------------------------------------------------------- buttons (buttons.c) and main loop
\* One button is followed, volume-up, whose callback is app_button_vol_up; the loop body of
\* buttons_poll is the same for each of the seven buttons.
\* buttons_poll of the bare-metal build, lines 99-141: the button record afterwards and the
\* event passed to the callback.
buttons_poll_bare(b, pin_state, current_time) ==
    LET current_state == IF pin_state # 0 THEN 0 ELSE 1
    IN  IF current_state # b.state
        THEN IF b.debounced = 0
             THEN [btn |-> [b EXCEPT !.press_time = current_time, !.debounced = 0],
                   event |-> "none"]
             ELSE IF current_time - b.press_time >= DEBOUNCE_TIME_MS
             THEN [btn |-> [b EXCEPT !.debounced = 1, !.state = current_state],
                   event |-> IF current_state = 1 THEN "BUTTON_PRESSED" ELSE "BUTTON_RELEASED"]
             ELSE [btn |-> b, event |-> "none"]
        ELSE IF b.debounced = 0 /\ current_time - b.press_time >= DEBOUNCE_TIME_MS
        THEN [btn |-> [b EXCEPT !.debounced = 1], event |-> "none"]
        ELSE IF b.state = 1 /\ b.debounced = 1
                /\ current_time - b.press_time >= LONG_PRESS_TIME_MS
        THEN [btn |-> [b EXCEPT !.debounced = 2], event |-> "BUTTON_LONG_PRESSED"]
        ELSE [btn |-> b, event |-> "none"]

\* buttons_poll of the HAL build, lines 283-315.
buttons_poll_hal(b, pin_state, current_time) ==
    LET current_state == IF pin_state = 0 THEN 1 ELSE 0
    IN  IF current_state # b.state
        THEN [btn |-> [b EXCEPT !.press_time = current_time, !.debounced = 0],
              event |-> "none"]
        ELSE IF b.debounced = 0 /\ current_time - b.press_time >= DEBOUNCE_TIME_MS
        THEN [btn |-> [b EXCEPT !.debounced = 1, !.state = current_state],
              event |-> IF current_state = 1 THEN "BUTTON_PRESSED" ELSE "BUTTON_RELEASED"]
        ELSE [btn |-> b, event |-> "none"]

buttons_poll(b, pin_state, current_time) ==
    IF buttons_build = "bare" THEN buttons_poll_bare(b, pin_state, current_time)
    ELSE buttons_poll_hal(b, pin_state, current_time)

\* The button's input as buttons_poll decodes it: 1 pressed, 0 released.
RawState(level) == IF level = 0 THEN 1 ELSE 0

\* The tick at which the input began to differ from the recorded state, after a step that
\* leaves the level and the recorded state given.
DiffSince(level, state) ==
    IF RawState(level) = state THEN -1
    ELSE IF diff_since # -1 THEN diff_since ELSE system_tick

\* One pass of the main loop (main.c 117-128): buttons_poll, and the periodic display update,
\* which only reads the player state. A BUTTON_PRESSED event runs app_button_vol_up; the
\* callback ignores the other events.
app_loop ==
    /\ backend = "codec"
    /\ LET r == buttons_poll(btn, pin, system_tick)
       IN  /\ btn' = r.btn
           /\ event' = r.event
           /\ diff_since' = DiffSince(pin, r.btn.state)
           /\ first_poll' = IF pin # 0 THEN -1
                            ELSE IF first_poll # -1 THEN first_poll ELSE system_tick
           /\ press_events' = IF r.event = "BUTTON_PRESSED" /\ press_events < 2
                              THEN press_events + 1 ELSE press_events
           /\ IF r.event = "BUTTON_PRESSED"
              THEN app_button_vol_up(Acked)
              ELSE /\ op' = "app_loop"
                   /\ ret' = "void"
                   /\ prev' = PlaybackState
                   /\ UNCHANGED << backend, chip, spi3_i2spr, i2c, wm8994, player_state, audio_buffer_len,
                                   audio_buffer_pos, codec_state, i2s_dma,
                                   i2s_dma_complete_flag, tc_count >>
                   /\ UNCHANGED pwmVars
                   /\ UNCHANGED << fg, stopped >>
    /\ UNCHANGED << buttons_build, system_tick, pin, pressed_since, advances >>

\* The 1 ms SysTick interrupt has fired ms times since the last step.
TickSteps == { 1, DEBOUNCE_TIME_MS, LONG_PRESS_TIME_MS }

SysTick_Handler(ms) ==
    /\ backend = "codec"
    /\ advances < MaxAdvances
    /\ system_tick' = system_tick + ms
    /\ advances' = advances + 1
    /\ UNCHANGED << buttons_build, pin, btn, event, diff_since, pressed_since, first_poll,
                    press_events >>
    /\ UNCHANGED << backend, fg, op, ret, prev, stopped >>
    /\ UNCHANGED codecVars
    /\ UNCHANGED pwmVars

\* The user presses or releases the button: the input level changes.
ButtonInput ==
    /\ backend = "codec"
    /\ pin' = 1 - pin
    /\ pressed_since' = IF pin = 1 THEN system_tick ELSE -1
    /\ diff_since' = DiffSince(1 - pin, btn.state)
    /\ first_poll' = -1
    /\ press_events' = IF pin = 1 THEN 0 ELSE press_events
    /\ UNCHANGED << buttons_build, system_tick, btn, event, advances >>
    /\ UNCHANGED << backend, fg, op, ret, prev, stopped >>
    /\ UNCHANGED codecVars
    /\ UNCHANGED pwmVars

CodecNext ==
    \/ \E data \in IdentityReads : player_init(Acked, data)
    \/ \E hal_ok \in BOOLEAN : player_play(hal_ok)
    \/ player_pause
    \/ player_resume
    \/ player_stop
    \/ \E v \in VolumeRequests : player_set_volume(v, Acked) /\ UNCHANGED loopVars
    \/ app_button_vol_up(Acked) /\ UNCHANGED loopVars
    \/ app_button_vol_down(Acked) /\ UNCHANGED loopVars
    \/ \E rate \in SampleRates : set_sample_rate(rate, Acked)
    \/ codec_i2s_interrupt_handler
    \/ DMA1_Stream5_Transfer
    \/ DMA1_Stream5_IRQHandler

Next == PwmNext \/ CodecNext \/ I2sNext

Spec == Init /\ [][Next]_vars

\* ---------------------------------------------------------------- quantization runs
\* Two-sample arrays << a, b >> with a < b: a chain of neighbours from -32768 to 32767, and the
\* neighbours of 0.
QuantBuffers ==
    { << -32768 + k * SampleStride,
         IF -32768 + (k + 1) * SampleStride > 32767 THEN 32767
         ELSE -32768 + (k + 1) * SampleStride >> : k \in 0..(65535 \div SampleStride) }
    \cup { << -1, 0 >>, << 0, 1 >> }

\* The state audio_set_volume(v); audio_play(b, 2) leaves after start-up, for every volume
\* 0..100 and every array of QuantBuffers.
QuantInit ==
    /\ backend = "pwm"
    /\ \E b \in QuantBuffers, v \in 0..100 :
           audio_state = [buffer |-> b, buffer_size |-> 2, sample_index |-> 0,
                          is_playing |-> 1, is_paused |-> 0, volume |-> v]
    /\ tim2_ccr1 = INITIAL_PULSE
    /\ player_state = [is_playing |-> 0, is_paused |-> 0, volume |-> INITIAL_VOLUME]
    /\ audio_buffer_len = 0
    /\ audio_buffer_pos = 0
    /\ codec_state = [is_initialized |-> 0, is_playing |-> 0, volume |-> INITIAL_VOLUME,
                      current_buffer |-> NULL, buffer_size |-> 0, buffer_position |-> 0]
    /\ chip = "wm8994"
    /\ wm8994 = RegistersAtReset
    /\ i2s_dma = [state |-> "stopped", addr |-> NULL, ndtr |-> 0, tcif |-> 0, teif |-> 0]
    /\ i2s_dma_complete_flag = 0
    /\ fg = [pc |-> "idle", buffer |-> NULL, size |-> 0]
    /\ op = "play"
    /\ ret = "void"
    /\ prev = "Stopped"
    /\ log = << >>
    /\ run = 0
    /\ pausedTicks = FALSE
    /\ tc_count = 0
    /\ stopped = FALSE
    /\ buttons_build = "bare"
    /\ system_tick = 0
    /\ pin = 1
    /\ btn = [state |-> 0, press_time |-> 0, debounced |-> 0]
    /\ event = "none"
    /\ diff_since = -1
    /\ pressed_since = -1
    /\ advances = 0
    /\ first_poll = -1
    /\ press_events = 0
    /\ spi3_i2spr = -1
    /\ i2c = I2cIdle

\* The sample clock alone: each tick quantizes the next sample.
QuantNext == TIM2_IRQHandler

QuantSpec == QuantInit /\ [][QuantNext]_vars

\* i2s_start_dma statement by statement: the stream and its interrupt run between the store
\* that enables the stream (line 459) and the store that clears the completion flag (line 462).
\* Lines 444-459: the argument check, then the stream is disabled, its flags cleared, address
\* and count loaded, and the stream enabled.
i2s_start_dma_L444(buffer, samples) ==
    /\ backend = "i2s"
    /\ fg.pc = "idle"
    /\ IF buffer = NULL \/ samples = 0
       THEN /\ op' = "i2s_start_dma"
            /\ prev' = PlaybackState
            /\ ret' = "void"
            /\ UNCHANGED << i2s_dma, tc_count, stopped, fg >>
       ELSE /\ i2s_dma' = [state |-> "running", addr |-> buffer, ndtr |-> samples, tcif |-> 0,
                           teif |-> 0]
            /\ tc_count' = 0
            /\ stopped' = FALSE
            /\ fg' = [pc |-> "L462", buffer |-> buffer, size |-> samples]
            /\ UNCHANGED << op, prev, ret >>
    /\ UNCHANGED loopVars
    /\ UNCHANGED << backend, chip, spi3_i2spr, i2c, wm8994, player_state, audio_buffer_len,
                    audio_buffer_pos, codec_state, i2s_dma_complete_flag >>
    /\ UNCHANGED pwmVars

\* Line 462: i2s_dma_complete_flag = 0, and the call returns.
i2s_start_dma_L462 ==
    /\ backend = "i2s"
    /\ fg.pc = "L462"
    /\ i2s_dma_complete_flag' = 0
    /\ fg' = Idle
    /\ op' = "i2s_start_dma"
    /\ prev' = PlaybackState
    /\ ret' = "void"
    /\ UNCHANGED loopVars
    /\ UNCHANGED << backend, chip, spi3_i2spr, i2c, wm8994, player_state, audio_buffer_len,
                    audio_buffer_pos, codec_state, i2s_dma, tc_count >>
    /\ UNCHANGED pwmVars
    /\ UNCHANGED stopped

StepI2sNext ==
    \/ \E sample_rate \in I2sRates : i2s_init(sample_rate)
    \/ \E call \in I2sCalls : i2s_start_dma_L444(call[1], call[2])
    \/ i2s_start_dma_L462
    \/ i2s_stop
    \/ DMA1_Stream5_Transfer
    \/ DMA1_Stream5_IRQHandler

\* The same program with the foreground calls of the PWM driver and of the I2S driver
\* interleaved with the interrupts statement by statement.
StepNext == StepPwmNext \/ CodecNext \/ StepI2sNext

StepSpec == Init /\ [][StepNext]_vars

\* The codec path with a transfer error possible on the stream and the main loop running.
FaultNext ==
    \/ \E data \in IdentityReads : player_init(Acked, data)
    \/ \E hal_ok \in BOOLEAN : player_play(hal_ok)
    \/ player_pause
    \/ player_resume
    \/ player_stop
    \/ codec_i2s_interrupt_handler
    \/ DMA1_Stream5_Transfer
    \/ DMA1_Stream5_TransferError
    \/ DMA1_Stream5_IRQHandler
    \/ app_loop

FaultInit ==
    /\ Init
    /\ backend = "codec"

FaultSpec == FaultInit /\ [][FaultNext]_vars

\* The main loop polling the volume-up button while the clock runs and the user presses and
\* releases it, for each of the two builds of buttons.c.
ButtonInit ==
    /\ backend = "codec"
    /\ audio_state = [buffer |-> NULL, buffer_size |-> 0, sample_index |-> 0,
                      is_playing |-> 0, is_paused |-> 0, volume |-> INITIAL_VOLUME]
    /\ tim2_ccr1 = INITIAL_PULSE
    /\ player_state = [is_playing |-> 0, is_paused |-> 0, volume |-> INITIAL_VOLUME]
    /\ audio_buffer_len = 0
    /\ audio_buffer_pos = 0
    /\ codec_state = [is_initialized |-> 1, is_playing |-> 0, volume |-> INITIAL_VOLUME,
                      current_buffer |-> NULL, buffer_size |-> 0, buffer_position |-> 0]
    /\ chip = "wm8994"
    /\ wm8994 = codec_configure_chip(codec_state, RegistersAtReset, TRUE, << 137, 148 >>).regs
    /\ i2s_dma = [state |-> "stopped", addr |-> NULL, ndtr |-> 0, tcif |-> 0, teif |-> 0]
    /\ i2s_dma_complete_flag = 0
    /\ fg = [pc |-> "idle", buffer |-> NULL, size |-> 0]
    /\ op = "init"
    /\ ret = "PLAYER_OK"
    /\ prev = "Stopped"
    /\ log = << >>
    /\ run = -1
    /\ pausedTicks = FALSE
    /\ tc_count = 0
    /\ stopped = FALSE
    /\ buttons_build \in {"bare", "hal"}
    /\ system_tick = 0
    /\ pin = 1
    /\ btn = [state |-> 0, press_time |-> 0, debounced |-> 0]
    /\ event = "none"
    /\ diff_since = -1
    /\ pressed_since = -1
    /\ advances = 0
    /\ first_poll = -1
    /\ press_events = 0
    /\ spi3_i2spr = I2sprWord(I2S_SR_44100)
    /\ i2c = I2cIdle

ButtonNext ==
    \/ \E ms \in TickSteps : SysTick_Handler(ms)
    \/ ButtonInput
    \/ app_loop

ButtonSpec == ButtonInit /\ [][ButtonNext]_vars

\* ---------------------------------------------------------------- I2C transfers, statement by statement
\* codec_write_register and codec_read_register followed through i2c_write, i2c_write_read and
\* i2c_read one driver call at a time, each handshake wait with its own outcome, while the
\* interrupt handlers run in between. i2c.pc names the source line of i2c.c about to execute;
\* i2c.trace lists what the driver has done to the bus since the call began: << "START", 0 >>
\* and << "STOP", 0 >> for the START and STOP bits of CR1, << "DR", b >> for a byte stored in
\* the data register, << "READ", ack >> for a byte taken from it.

\* Upper bound of the polling loop of i2c_wait_event.
timeout_max == I2C_TIMEOUT_MS * 1000

\* How many polls of SR1 an awaited status bit takes to appear: at once, after one poll, at the
\* last poll the loop allows, after twice as many, or never (-1).
WaitOutcomes == { 0, 1, timeout_max, 2 * timeout_max, -1 }

\* Mutant of i2c_wait_event_L112: the loop does not test the timeout counter.
i2c_wait_event_L112_NoTimeout(polls) ==
    IF polls = -1 THEN [iterations |-> 3 * timeout_max, result |-> 0]
    ELSE [iterations |-> polls, result |-> 1]

\* The loop of i2c_wait_event, lines 109-116: the iterations it makes and the value returned.
\* The loop ends when the bit is set or timeout has reached timeout_max; the result is the bit
\* as read after the loop.
i2c_wait_event_L112(polls) ==
    IF polls # -1 /\ polls <= timeout_max THEN [iterations |-> polls, result |-> 1]
    ELSE [iterations |-> timeout_max, result |-> 0]

\* The transfer record after one more handshake wait; the callers drop the result, which is
\* kept here to tell whether the chip took part.
Waited(b, polls) ==
    LET w == i2c_wait_event_L112(polls)
    IN  [b EXCEPT !.waits = @ + 1, !.spins = @ + w.iterations,
                  !.acked = @ /\ w.result = 1]

\* Register writes and reads followed: the left volume register at full volume, the sample
\* rate setting, and the identity register.
BusWrites == { << WM8994_LEFT_OUTPUT_VOLUME, 255 >>, << WM8994_AUDIO_INTERFACE_2, 16384 >> }

BusReads == { WM8994_CHIP_ID }

\* One statement of the driver that touches the bus record only.
I2cStep(pc, new_i2c) ==
    /\ backend = "codec"
    /\ i2c.pc = pc
    /\ i2c' = new_i2c
    /\ UNCHANGED << backend, chip, spi3_i2spr, wm8994, player_state, audio_buffer_len,
                    audio_buffer_pos, codec_state, i2s_dma, i2s_dma_complete_flag, tc_count >>
    /\ UNCHANGED << fg, op, ret, prev, stopped >>
    /\ UNCHANGED pwmVars
    /\ UNCHANGED loopVars

\* codec_write_register, lines 79-85: the three bytes, and the call of i2c_write, whose
\* argument check (line 200) passes.
codec_write_register_L79(addr, value) ==
    I2cStep("idle", [I2cIdle EXCEPT !.pc = "L206", !.call = "codec_write_register",
                                    !.reg = addr, !.value = value,
                                    !.data = << BitAnd(addr, 255), BitAnd(value \div 256, 255),
                                                BitAnd(value, 255) >>])

\* codec_read_register, lines 64-67: i2c_write_read with two bytes to read; its argument
\* check passes and it calls i2c_write with the register address (line 273).
codec_read_register_L64(addr) ==
    I2cStep("idle", [I2cIdle EXCEPT !.pc = "L206", !.call = "codec_read_register",
                                    !.reg = addr, !.data = << BitAnd(addr, 255) >>, !.len = 2])

\* i2c_write line 206, i2c_start: the START bit, then the wait for SB.
i2c_write_L206(polls) ==
    I2cStep("L206", Waited([i2c EXCEPT !.pc = "L209", !.trace = Append(@, << "START", 0 >>)],
                           polls))

\* Line 209, i2c_send_address((0x1A << 1) | 0): the byte, then the wait for ADDR.
i2c_write_L209(polls) ==
    I2cStep("L209", Waited([i2c EXCEPT !.pc = "L213", !.i = 0,
                                       !.trace = Append(@, << "DR", (26 * 2) % 256 >>)], polls))

\* Lines 212-214, i2c_write_byte(data[i]): the wait for TXE, then the byte.
i2c_write_L213(polls) ==
    I2cStep("L213", Waited([i2c EXCEPT !.pc = IF i2c.i + 1 = Len(i2c.data) THEN "L217" ELSE "L213",
                                       !.i = @ + 1,
                                       !.trace = Append(@, << "DR", i2c.data[i2c.i + 1] >>)],
                           polls))

\* Line 217: the wait for BTF.
i2c_write_L217(polls) ==
    I2cStep("L217", Waited([i2c EXCEPT !.pc = "L220"], polls))

\* Line 220, i2c_stop: the STOP bit. A chip that answered every wait of the transfer has the
\* value in its register by now.
i2c_write_L220 ==
    /\ backend = "codec"
    /\ i2c.pc = "L220"
    /\ i2c' = [i2c EXCEPT !.pc = "L222", !.trace = Append(@, << "STOP", 0 >>)]
    /\ wm8994' = IF i2c.call = "codec_write_register" /\ i2c.acked
                 THEN [wm8994 EXCEPT ![i2c.data[1]] = i2c.value] ELSE wm8994
    /\ UNCHANGED << backend, chip, spi3_i2spr, player_state, audio_buffer_len,
                    audio_buffer_pos, codec_state, i2s_dma, i2s_dma_complete_flag, tc_count >>
    /\ UNCHANGED << fg, op, ret, prev, stopped >>
    /\ UNCHANGED pwmVars
    /\ UNCHANGED loopVars

\* The call returns to the foreground with the status given.
BusReturn(pc, fn, status) ==
    /\ backend = "codec"
    /\ i2c.pc = pc
    /\ i2c' = I2cIdle
    /\ op' = fn
    /\ ret' = status
    /\ prev' = PlaybackState
    /\ UNCHANGED << backend, chip, spi3_i2spr, wm8994, player_state, audio_buffer_len,
                    audio_buffer_pos, codec_state, i2s_dma, i2s_dma_complete_flag, tc_count >>
    /\ UNCHANGED << fg, stopped >>
    /\ UNCHANGED pwmVars
    /\ UNCHANGED loopVars

\* i2c_write returns 0 (line 222) and codec_write_register returns CODEC_OK (line 89).
codec_write_register_L89 ==
    /\ i2c.call = "codec_write_register"
    /\ BusReturn("L222", "codec_write_register", "CODEC_OK")

\* i2c_write returns 0 to i2c_write_read, which delays 10 us in a counted loop (line 278) and
\* calls i2c_read, whose argument check passes.
i2c_write_read_L278 ==
    /\ i2c.call = "codec_read_register"
    /\ I2cStep("L222", [i2c EXCEPT !.pc = "L238"])

\* i2c_read line 238, i2c_start.
i2c_read_L238(polls) ==
    I2cStep("L238", Waited([i2c EXCEPT !.pc = "L241", !.trace = Append(@, << "START", 0 >>)],
                           polls))

\* Line 241, i2c_send_address((0x1A << 1) | 1).
i2c_read_L241(polls) ==
    I2cStep("L241", Waited([i2c EXCEPT !.pc = "L244", !.i = 0,
                                       !.trace = Append(@, << "DR", (26 * 2 + 1) % 256 >>)],
                           polls))

\* Lines 244-251, i2c_read_byte: acknowledge every byte but the last, wait for RXNE, take
\* the byte.
i2c_read_L244(polls) ==
    I2cStep("L244", Waited([i2c EXCEPT !.pc = IF i2c.i + 1 = i2c.len THEN "L254" ELSE "L244",
                                       !.i = @ + 1,
                                       !.trace = Append(@, << "READ", IF i2c.i = i2c.len - 1
                                                                      THEN 0 ELSE 1 >>)],
                           polls))

\* Line 254, i2c_stop.
i2c_read_L254 ==
    I2cStep("L254", [i2c EXCEPT !.pc = "L256", !.trace = Append(@, << "STOP", 0 >>)])

\* i2c_read and i2c_write_read return 0 and codec_read_register returns CODEC_OK (line 74).
codec_read_register_L74 ==
    BusReturn("L256", "codec_read_register", "CODEC_OK")

\* The state after player_init and player_play of one sample on the codec build, and the
\* state after audio_play of two samples on the PWM build, which has no codec.
BusInit ==
    /\ backend \in {"codec", "pwm"}
    /\ audio_state = IF backend = "pwm"
                     THEN [buffer |-> << -32768, 32767 >>, buffer_size |-> 2, sample_index |-> 0,
                           is_playing |-> 1, is_paused |-> 0, volume |-> INITIAL_VOLUME]
                     ELSE [buffer |-> NULL, buffer_size |-> 0, sample_index |-> 0,
                           is_playing |-> 0, is_paused |-> 0, volume |-> INITIAL_VOLUME]
    /\ tim2_ccr1 = INITIAL_PULSE
    /\ player_state = [is_playing |-> IF backend = "codec" THEN 1 ELSE 0, is_paused |-> 0,
                       volume |-> INITIAL_VOLUME]
    /\ audio_buffer_len = IF backend = "codec" THEN 1 ELSE 0
    /\ audio_buffer_pos = 0
    /\ codec_state = IF backend = "codec"
                     THEN [is_initialized |-> 1, is_playing |-> 1, volume |-> INITIAL_VOLUME,
                           current_buffer |-> audio_buffer, buffer_size |-> 1,
                           buffer_position |-> 0]
                     ELSE [is_initialized |-> 0, is_playing |-> 0, volume |-> INITIAL_VOLUME,
                           current_buffer |-> NULL, buffer_size |-> 0, buffer_position |-> 0]
    /\ chip = "wm8994"
    /\ wm8994 = IF backend = "codec"
                THEN codec_configure_chip(codec_state, RegistersAtReset, TRUE, << 137, 148 >>).regs
                ELSE RegistersAtReset
    /\ i2s_dma = IF backend = "codec"
                 THEN [state |-> "running", addr |-> audio_buffer, ndtr |-> 1, tcif |-> 0,
                       teif |-> 0]
                 ELSE [state |-> "stopped", addr |-> NULL, ndtr |-> 0, tcif |-> 0, teif |-> 0]
    /\ i2s_dma_complete_flag = 0
    /\ fg = [pc |-> "idle", buffer |-> NULL, size |-> 0]
    /\ op = "play"
    /\ ret = IF backend = "codec" THEN "PLAYER_OK" ELSE "void"
    /\ prev = "Stopped"
    /\ log = << >>
    /\ run = 0
    /\ pausedTicks = FALSE
    /\ tc_count = 0
    /\ stopped = FALSE
    /\ buttons_build = "bare"
    /\ system_tick = 0
    /\ pin = 1
    /\ btn = [state |-> 0, press_time |-> 0, debounced |-> 0]
    /\ event = "none"
    /\ diff_since = -1
    /\ pressed_since = -1
    /\ advances = 0
    /\ first_poll = -1
    /\ press_events = 0
    /\ spi3_i2spr = IF backend = "codec" THEN I2sprWord(I2S_SR_44100) ELSE -1
    /\ i2c = I2cIdle

BusNext ==
    \/ \E w \in BusWrites : codec_write_register_L79(w[1], w[2])
    \/ \E addr \in BusReads : codec_read_register_L64(addr)
    \/ \E polls \in WaitOutcomes : i2c_write_L206(polls)
    \/ \E polls \in WaitOutcomes : i2c_write_L209(polls)
    \/ \E polls \in WaitOutcomes : i2c_write_L213(polls)
    \/ \E polls \in WaitOutcomes : i2c_write_L217(polls)
    \/ i2c_write_L220
    \/ codec_write_register_L89
    \/ i2c_write_read_L278
    \/ \E polls \in WaitOutcomes : i2c_read_L238(polls)
    \/ \E polls \in WaitOutcomes : i2c_read_L241(polls)
    \/ \E polls \in WaitOutcomes : i2c_read_L244(polls)
    \/ i2c_read_L254
    \/ codec_read_register_L74
    \/ DMA1_Stream5_Transfer
    \/ DMA1_Stream5_IRQHandler
    \/ codec_i2s_interrupt_handler
    \/ TIM2_IRQHandler

BusSpec == BusInit /\ [][BusNext]_vars

\* ================================================================ properties
\* The cursor get_position() reads: the sample index of the active back-end.
Cursor == IF backend = "pwm" THEN audio_get_position ELSE codec_get_position

\* The hardware output is at the silence level: duty at the midpoint, or the serial stream not running.
Silent == IF backend = "pwm" THEN tim2_ccr1 = PWM_PERIOD \div 2 ELSE i2s_dma.state # "running"

\* The gate pause()/resume() operate: the is_paused flag the tick handler tests, or the DMA stream.
Gate == IF backend = "pwm" THEN audio_state.is_paused ELSE i2s_dma

\* Buffer reference and length installed in the active back-end.
Installed ==
    IF backend = "pwm" THEN << audio_state.buffer, audio_state.buffer_size >>
    ELSE << codec_state.current_buffer, codec_state.buffer_size >>

\* The error statuses of player_status_t.
ErrorStatus == {"PLAYER_ERROR", "PLAYER_ERROR_NO_FILE", "PLAYER_ERROR_UNSUPPORTED"}

\* Every logged read is of the installed buffer, at consecutive indices from 0.
LogFromInstalled ==
    \A i \in 1..Len(log) :
        /\ i <= Len(audio_state.buffer)
        /\ log[i] = << i - 1, audio_state.buffer[i] >>

\* The transitions section 4.5 lists.
ListedTransition ==
    \/ PlaybackState = "Stopped" /\ PlaybackState' = "Playing" /\ op' = "play"
    \/ PlaybackState = "Playing" /\ PlaybackState' = "Paused" /\ op' = "pause"
    \/ PlaybackState = "Paused" /\ PlaybackState' = "Playing" /\ op' = "resume"
    \/ PlaybackState = "Playing" /\ PlaybackState' = "Stopped" /\ op' = "stop"
    \/ /\ PlaybackState = "Playing" /\ PlaybackState' = "Stopped" /\ op' = "tick"
       /\ audio_state.sample_index = audio_state.buffer_size
    \/ PlaybackState = "Paused" /\ PlaybackState' = "Stopped" /\ op' = "stop"

\* C1 (as stated): PlaybackState changes only along Stopped->Playing by play(), Playing->Paused by
\* pause(), Paused->Playing by resume(), Playing->Stopped by stop() or end of buffer,
\* Paused->Stopped by stop().
C1_OnlyListedTransitions ==
    [][PlaybackState' # PlaybackState => ListedTransition]_vars

\* C1 (amended): the listed transitions, and Paused->Playing by play(), which is accepted in
\* every state; no other state change occurs.
C1_ListedOrReplayFromPaused ==
    [][PlaybackState' # PlaybackState =>
          \/ ListedTransition
          \/ PlaybackState = "Paused" /\ PlaybackState' = "Playing" /\ op' = "play"]_vars

\* C1 witness: play() has just taken a Paused player to Playing.
C1_Witness ==
    /\ op = "play" /\ prev = "Paused" /\ PlaybackState = "Playing"
    /\ backend = "pwm" /\ audio_state.sample_index = 0

\* C2: stop() in any state succeeds and leaves PlaybackState Stopped, the cursor read by
\* get_position() at 0 and the hardware output at the silence level.
C2_StopLeavesStoppedZeroSilent ==
    [][op' = "stop" =>
          /\ ret' \in {"void", "PLAYER_OK"}
          /\ PlaybackState' = "Stopped"
          /\ Cursor' = 0
          /\ Silent']_vars

\* C3: play(buf, N) followed by exactly N ticks, nothing in between, leaves PlaybackState
\* Stopped and cursor N.
C3_StoppedAfterNTicks ==
    (backend = "pwm" /\ run >= 1 /\ run = audio_state.buffer_size)
        => (PwmState = "Stopped" /\ audio_state.sample_index = run)

\* C4: no tick while Paused advances the cursor, writes the duty register or reads a sample;
\* every tick that does read takes the sample at the cursor and writes its quantization; so the
\* reads of an episode are the buffer's samples at indices 0, 1, 2, ... whatever pauses occurred.
C4_PauseResumePreservesOutput ==
    [][/\ (TIM2_IRQHandler /\ PwmState = "Paused") =>
              UNCHANGED << audio_state, tim2_ccr1, log >>
       /\ (TIM2_IRQHandler /\ log' # log) =>
              /\ log' = Append(log, << audio_state.sample_index,
                                       audio_state.buffer[audio_state.sample_index + 1] >>)
              /\ tim2_ccr1' = audio_output_sample(audio_state.buffer[audio_state.sample_index + 1],
                                                  audio_state.volume)
              /\ audio_state'.sample_index = audio_state.sample_index + 1
       /\ LogFromInstalled'
       /\ (PwmState' # "Stopped" => Len(log') = audio_state'.sample_index)]_vars

\* C4 witness: a whole buffer of at least two samples has been played with a pause in the
\* middle, during which ticks arrived.
C4_Witness ==
    /\ backend = "pwm" /\ pausedTicks /\ PwmState = "Playing" /\ op = "tick"
    /\ audio_state.buffer_size >= 2
    /\ audio_state.sample_index = audio_state.buffer_size
    /\ Len(log) = audio_state.buffer_size

\* C5: whenever PlaybackState is not Playing the PWM duty register holds exactly P/2.
C5_SilentUnlessPlaying ==
    (backend = "pwm" /\ PwmState # "Playing") => tim2_ccr1 = PWM_PERIOD \div 2

\* C6: a tick while Playing with cursor == length sets PlaybackState to Stopped and writes P/2
\* to the duty register, reading no sample.
C6_EndOfBufferTickSilences ==
    [][(TIM2_IRQHandler /\ PwmState = "Playing"
            /\ audio_state.sample_index = audio_state.buffer_size) =>
          /\ PwmState' = "Stopped"
          /\ tim2_ccr1' = PWM_PERIOD \div 2
          /\ log' = log]_vars

\* C7: pause() in a state other than Playing returns an error status and leaves PlaybackState,
\* cursor and gate unchanged.
C7_PauseRejectedUnlessPlaying ==
    [][((audio_pause \/ player_pause) /\ PlaybackState # "Playing") =>
          /\ ret' \in ErrorStatus
          /\ PlaybackState' = PlaybackState
          /\ Cursor' = Cursor
          /\ Gate' = Gate]_vars

\* C8: resume() in a state other than Paused returns an error status and leaves PlaybackState,
\* cursor and gate unchanged.
C8_ResumeRejectedUnlessPaused ==
    [][((audio_resume \/ player_resume) /\ PlaybackState # "Paused") =>
          /\ ret' \in ErrorStatus
          /\ PlaybackState' = PlaybackState
          /\ Cursor' = Cursor
          /\ Gate' = Gate]_vars

\* C9: play() with a null buffer or a length of 0 returns an error status and leaves the
\* installed buffer, the cursor and PlaybackState as they were.
C9_PlayRejectsNullOrEmpty ==
    [][(\/ \E call \in PlayCalls :
               (call[1] = NULL \/ call[2] = 0) /\ audio_play(call[1], call[2])
        \/ audio_buffer_len = 0 /\ \E hal_ok \in BOOLEAN : player_play(hal_ok)) =>
          /\ ret' \in ErrorStatus
          /\ Installed' = Installed
          /\ Cursor' = Cursor
          /\ PlaybackState' = PlaybackState]_vars

C11_CursorWithinLength ==
    /\ 0 <= Cursor
    /\ Cursor <= Installed[2]

\* C12: every duty the quantization stage writes, for every sample and every volume 0..100,
\* lies in 0..P-1 (never P), and is the quantization of the sample read at the current volume.
C12_DutyWithinRange ==
    log # << >> =>
        /\ tim2_ccr1 \in 0..(PWM_PERIOD - 1)
        /\ tim2_ccr1 = audio_output_sample(log[Len(log)][2], audio_state.volume)

\* C12 witness: the largest sample at full volume has been written as duty P-1.
C12_Witness ==
    /\ Len(log) = 2 /\ log[2][2] = 32767 /\ audio_state.volume = 100
    /\ tim2_ccr1 = PWM_PERIOD - 1

\* C13: at a fixed volume, for samples a < b the duty written for a is at most the duty
\* written for b (a is the first sample of the array, b the second).
C13_DutyMonotonic ==
    [][(TIM2_IRQHandler /\ Len(log) = 1 /\ Len(log') = 2 /\ log'[1][2] < log'[2][2]) =>
          tim2_ccr1 <= tim2_ccr1']_vars

\* C13 witness: at volume 50 the second, larger sample was written with a larger duty than
\* the first.
C13_Witness ==
    /\ Len(log) = 2 /\ log[1][2] < log[2][2] /\ audio_state.volume = 50
    /\ tim2_ccr1 > audio_output_sample(log[1][2], audio_state.volume)

\* C14: at volume 0 every sample is written as duty P/2, and the sample 0 is written as duty
\* P/2 at every volume.
C14_ZeroIsMidpoint ==
    (log # << >> /\ (audio_state.volume = 0 \/ log[Len(log)][2] = 0)) =>
        tim2_ccr1 = PWM_PERIOD \div 2

\* C14 witness: the largest sample has been written at volume 0, as the midpoint.
C14_Witness ==
    /\ Len(log) = 2 /\ log[2][2] = 32767 /\ audio_state.volume = 0
    /\ tim2_ccr1 = PWM_PERIOD \div 2

\* The volume the controller of the active back-end holds.
Volume == IF backend = "pwm" THEN audio_state.volume ELSE player_state.volume

\* C15: set_volume with a value above 100 succeeds and stores 100, as set_volume(100) does
\* (out-of-range volume is never rejected); a request below 0 (volume-down at a volume under
\* one step) stores 0.
C15_VolumeClamped ==
    [][/\ \A v \in VolumeRequests :
              (v > 100 /\ (audio_set_volume(v) \/ player_set_volume(v, Acked))) =>
                  /\ ret' \notin ErrorStatus
                  /\ Volume' = 100
       /\ (app_button_vol_down(Acked) /\ player_state.volume < VOLUME_STEP) =>
              /\ ret' \notin ErrorStatus
              /\ Volume' = 0]_vars

\* C16: get_position() returns the cursor, a sample index, on both back-ends.
C16_GetPositionReturnsCursor ==
    /\ backend = "pwm" => audio_get_position = audio_state.sample_index
    /\ backend = "codec" => player_get_position = codec_state.buffer_position

\* C17: on the codec path the transfer-complete interrupt of a play() of N sample words is the
\* only one for that play(), and when it arrives get_position() reports N.
C17_CompletionOnceAtN ==
    [][(DMA1_Stream5_IRQHandler /\ backend = "codec") =>
          /\ tc_count' = 1
          /\ codec_get_position = codec_state.buffer_size]_vars

\* C18: on the codec path the transfer-complete handler clears the hardware completion
\* indicator, sets the completion flag and leaves PlaybackState Stopped, with the stream not
\* restarted.
C18_CompletionStops ==
    [][(DMA1_Stream5_IRQHandler /\ backend = "codec") =>
          /\ i2s_dma'.tcif = 0
          /\ i2s_dma_complete_flag' = 1
          /\ i2s_dma'.state # "running"
          /\ PlaybackState' = "Stopped"]_vars

\* C19: from the return of stop() until the next accepted play(), the output stays at the
\* silence level and no tick or DMA event moves the cursor or the stream's word count,
\* whichever interrupts ran between the statements of stop().
C19_NoProgressAfterStop ==
    [][stopped' =>
          /\ Silent'
          /\ stopped =>
                /\ Cursor' = Cursor
                /\ i2s_dma'.ndtr = i2s_dma.ndtr]_vars

\* C19 witness: after a buffer was being played, stop() has returned and a tick has run since:
\* the cursor is 0 and the duty is the midpoint.
C19_Witness ==
    /\ backend = "pwm" /\ stopped /\ op = "tick" /\ fg.pc = "idle"
    /\ Len(log) >= 1
    /\ audio_state.sample_index = 0
    /\ tim2_ccr1 = PWM_PERIOD \div 2

C28_PlayingFieldsSameEpisode ==
    (backend = "pwm" /\ PwmState = "Playing") =>
        /\ audio_state.buffer_size = Len(audio_state.buffer)
        /\ audio_state.sample_index <= audio_state.buffer_size

\* C29: every sample the tick handler reads is read at an index strictly below the length of
\* the array audio_state.buffer points to, a tick between two statements of audio_play included.
C29_ReadsInsideBuffer ==
    [][(TIM2_IRQHandler /\ log' # log) =>
          audio_state.sample_index < Len(audio_state.buffer)]_vars

\* C30: in the PWM driver is_paused = 1 implies is_playing = 1 in every reachable state, the
\* states between the test and the store of audio_pause included.
C30_PausedImpliesPlaying ==
    backend = "pwm" => (audio_state.is_paused = 1 => audio_state.is_playing = 1)

\* The presets of codec_sample_rate_t.
SupportedRates == { CODEC_SAMPLE_RATE_44100, CODEC_SAMPLE_RATE_48000, CODEC_SAMPLE_RATE_96000 }

\* C21: the gain word codec set_volume writes to the left and right output-volume registers
\* never decreases when the volume increases: a write for a larger volume than the one the
\* registers were last written for leaves a value at least as large in both.
C21_GainMonotonic ==
    [][(/\ backend = "codec" /\ Acked
        /\ op' = "set_volume" /\ ret' = "PLAYER_OK"
        /\ wm8994[WM8994_LEFT_OUTPUT_VOLUME] # -1
        /\ codec_state.volume < codec_state'.volume) =>
           /\ wm8994[WM8994_LEFT_OUTPUT_VOLUME] <= wm8994'[WM8994_LEFT_OUTPUT_VOLUME]
           /\ wm8994[WM8994_RIGHT_OUTPUT_VOLUME] <= wm8994'[WM8994_RIGHT_OUTPUT_VOLUME]]_vars

\* C22: codec init fails and leaves the codec uninitialized whenever the identity register
\* cannot be read (nothing answers) or its high byte is not 0x89, and while the codec is
\* uninitialized play returns an error without installing a buffer or arming the stream.
C22_InitFailsOnBadIdentity ==
    [][/\ \A data \in IdentityReads :
              (/\ player_init(Acked, data)
               /\ codec_state.is_initialized = 0
               /\ (~Acked \/ data[1] # 137)) =>
                  /\ ret' = "PLAYER_ERROR"
                  /\ codec_state'.is_initialized = 0
       /\ \A hal_ok \in BOOLEAN :
              (/\ player_play(hal_ok)
               /\ codec_state.is_initialized = 0
               /\ audio_buffer_len > 0) =>
                  /\ ret' = "PLAYER_ERROR"
                  /\ codec_state'.current_buffer = codec_state.current_buffer
                  /\ codec_state'.buffer_size = codec_state.buffer_size
                  /\ i2s_dma' = i2s_dma]_vars

\* C23: when the awaited handshake bits do not appear within the bounded wait, a codec control
\* operation returns a timeout error: the register write of set_sample_rate returns
\* CODEC_TIMEOUT to its caller, and so does the identity read that init performs.
C23_TimeoutIsReported ==
    [][~Acked =>
          /\ \A rate \in SupportedRates :
                 set_sample_rate(rate, Acked) => ret' = "CODEC_TIMEOUT"
          /\ \A data \in IdentityReads :
                 (player_init(Acked, data) /\ codec_state.is_initialized = 0) =>
                     codec_read_register(WM8994_CHIP_ID, Acked, data).status = "CODEC_TIMEOUT"]_vars

\* C24: set_sample_rate with a rate outside the three presets returns CODEC_ERROR and leaves
\* every codec register as it was; with a preset it returns CODEC_OK and, when the chip
\* answers, the interface register holds the preset's setting.
C24_SampleRatePresets ==
    [][\A rate \in SampleRates :
           set_sample_rate(rate, Acked) =>
               IF rate \in SupportedRates
               THEN /\ ret' = "CODEC_OK"
                    /\ Acked => wm8994'[BitAnd(WM8994_AUDIO_INTERFACE_2, 255)] =
                                    (IF rate = CODEC_SAMPLE_RATE_96000 THEN 32768 ELSE 16384)
               ELSE /\ ret' = "CODEC_ERROR"
                    /\ wm8994' = wm8994]_vars

\* C24 witness: the 96 kHz preset was accepted and written, and a later request for an
\* unsupported rate was refused with the register still holding the 96 kHz setting.
C24_Witness ==
    /\ backend = "codec" /\ Acked
    /\ op = "set_sample_rate" /\ ret = "CODEC_ERROR"
    /\ wm8994[BitAnd(WM8994_AUDIO_INTERFACE_2, 255)] = 32768

\* C25: a main-loop pass that begins with a transfer error flagged on the stream and playback
\* not Stopped forces stop: it ends with PlaybackState Stopped and the output silenced.
C25_FaultForcesStop ==
    [][(app_loop /\ i2s_dma.teif = 1 /\ PlaybackState # "Stopped") =>
          (PlaybackState' = "Stopped" /\ Silent')]_vars

\* C26: buttons_poll changes the recorded button state or calls the callback with a press or
\* a release only when the input has differed from the recorded state for at least
\* DEBOUNCE_TIME_MS without interruption.
C26_EventsAreDebounced ==
    [][(app_loop /\ (event' \in {"BUTTON_PRESSED", "BUTTON_RELEASED"}
                       \/ btn'.state # btn.state)) =>
          /\ diff_since # -1
          /\ system_tick - diff_since >= DEBOUNCE_TIME_MS]_vars

\* C27: BUTTON_LONG_PRESSED is delivered only when the input has been at the pressed level
\* for at least LONG_PRESS_TIME_MS since it went there, and not a second time while the
\* button is still recorded as long-pressed.
C27_LongPressAfterHold ==
    [][(app_loop /\ event' = "BUTTON_LONG_PRESSED") =>
          /\ pressed_since # -1
          /\ system_tick - pressed_since >= LONG_PRESS_TIME_MS
          /\ btn.debounced # 2]_vars


\* The bit clock the prescaler word gives is within 1% of the bit rate asked for. The clock is
\* 42 MHz / (2 * I2SDIV + ODD) (the formula of i2s_calculate_prescaler's header with the odd
\* term counted), the rate asked for is the bit_rate the function computes.
BitRateWithinOnePercent(sample_rate, word) ==
    LET requested == sample_rate * 32 * 2
        divider == 2 * I2SDIV(word) + ODD(word)
    IN  Abs(42000000 - requested * divider) <= (requested * divider - 1) \div 100

\* C33: for each of the presets 44100, 48000 and 96000 Hz, the divider and odd term i2s_init
\* stores in the prescaler register give a bit clock whose error against the requested bit
\* rate is below 1%.
C33_PresetRatesWithinOnePercent ==
    [][\A sample_rate \in I2sRates :
           i2s_init(sample_rate) => BitRateWithinOnePercent(sample_rate, spi3_i2spr')]_vars

\* C34: i2s_dma_complete_flag goes from 0 to 1 only in the transfer-complete handler, which
\* always leaves it 1, and goes from 1 to 0 only in the foreground calls i2s_init and
\* i2s_start_dma.
C34_FlagWriters ==
    [][/\ DMA1_Stream5_IRQHandler => i2s_dma_complete_flag' = 1
       /\ (i2s_dma_complete_flag = 0 /\ i2s_dma_complete_flag' = 1) => DMA1_Stream5_IRQHandler
       /\ (i2s_dma_complete_flag = 1 /\ i2s_dma_complete_flag' = 0) =>
              \/ \E sample_rate \in I2sRates : i2s_init(sample_rate)
              \/ \E call \in I2sCalls : i2s_start_dma(call[1], call[2])]_vars

\* C34 witness: on the bare I2S driver the handler has set the flag for a transfer that
\* i2s_start_dma armed with the flag cleared.
C34_Witness ==
    /\ backend = "i2s"
    /\ op = "dma_tc"
    /\ i2s_dma_complete_flag = 1
    /\ tc_count = 1

\* C37: a player_play that returns an error status leaves is_playing and is_paused of the
\* controller as they were before the call.
C37_FailedPlayKeepsState ==
    [][\A hal_ok \in BOOLEAN :
           (player_play(hal_ok) /\ ret' \in ErrorStatus) =>
               /\ player_state'.is_playing = player_state.is_playing
               /\ player_state'.is_paused = player_state.is_paused]_vars

\* C38: in every state the controller reports Playing (is_playing set, is_paused clear)
\* exactly when the codec driver's is_playing flag is set.
C38_ControllerAndCodecAgree ==
    backend = "codec" =>
        ((player_state.is_playing = 1 /\ player_state.is_paused = 0)
             <=> codec_state.is_playing = 1)

\* C39: a poll made more than DEBOUNCE_TIME_MS after the first poll that saw the button
\* pressed, with the button held all the while, ends with BUTTON_PRESSED delivered for this
\* press, and no press is ever delivered twice.
C39_HeldPressIsReported ==
    [][app_loop =>
          /\ press_events' <= 1
          /\ (pin = 0 /\ first_poll # -1 /\ system_tick - first_poll > DEBOUNCE_TIME_MS) =>
                 press_events' = 1]_vars


\* C36: once the transfer-complete handler has set the completion flag, i2s_dma_complete
\* keeps returning 1 until the next transfer is started: no step other than the one in which
\* i2s_start_dma arms the stream takes the flag from 1 to 0, wherever the interrupt fell after
\* the stream was enabled.
C36_CompletionNotLost ==
    [][(i2s_dma_complete = 1 /\ ~(\E call \in I2sCalls : i2s_start_dma_L444(call[1], call[2])))
           => i2s_dma_complete' = 1]_vars


\* C31: no interrupt handler touches the codec control channel or waits: a step of
\* TIM2_IRQHandler, DMA1_Stream5_IRQHandler or codec_i2s_interrupt_handler issues no bus
\* operation and makes no handshake wait, whatever the foreground is in the middle of.
C31_HandlersLeaveBusAlone ==
    [][(TIM2_IRQHandler \/ DMA1_Stream5_IRQHandler \/ codec_i2s_interrupt_handler) =>
          /\ i2c'.trace = i2c.trace
          /\ i2c'.waits = i2c.waits
          /\ i2c'.spins = i2c.spins
          /\ i2c'.pc = i2c.pc]_vars

\* C31 witness: the transfer-complete handler has run while a register write was between its
\* START and its STOP.
C31_Witness ==
    /\ op = "dma_tc"
    /\ i2c.call = "codec_write_register"
    /\ i2c.pc = "L213"
    /\ i2c.waits = 2

\* Handshake waits a call makes: i2c_write one for START, one for the address, one per byte
\* and one for BTF; i2c_read one for START, one for the address and one per byte.
WaitsOfCall(b) ==
    (Len(b.data) + 3) + (IF b.len > 0 THEN b.len + 2 ELSE 0)

\* C32: a register write or read makes a bounded number of handshake waits and every wait a
\* bounded number of iterations, so the iterations of the whole call are bounded, whether or
\* not the awaited bits ever appear.
C32_WaitsAreBounded ==
    /\ i2c.waits <= WaitsOfCall(i2c)
    /\ i2c.spins <= i2c.waits * timeout_max

\* C32 witness: a register write has reached its return with none of its six waits answered,
\* having spent the full count in each.
C32_Witness ==
    /\ i2c.call = "codec_write_register"
    /\ i2c.pc = "L222"
    /\ i2c.waits = 6
    /\ i2c.spins = 6 * timeout_max
    /\ ~i2c.acked

IsStart(e) == e[1] = "START"

IsStop(e) == e[1] = "STOP"

\* START conditions issued in the call so far that no STOP has closed.
OpenStarts == Len(SelectSeq(i2c.trace, IsStart)) - Len(SelectSeq(i2c.trace, IsStop))

\* C35: a finished register write has issued START, the device address 0x1A with the write
\* bit, the register address (in one byte, or in two, high byte first), the two value bytes
\* high byte first and STOP, in this order and nothing else; and every START is closed by
\* exactly one STOP before the driver returns, handshake timeouts included.
C35_WriteIsFramed ==
    /\ OpenStarts \in {0, 1}
    /\ i2c.pc \in {"idle", "L222", "L256"} => OpenStarts = 0
    /\ (i2c.call = "codec_write_register" /\ i2c.pc = "L222") =>
           LET n == Len(i2c.trace)
           IN  /\ n \in {6, 7}
               /\ i2c.trace[1] = << "START", 0 >>
               /\ i2c.trace[2] = << "DR", 52 >>
               /\ IF n = 6 THEN i2c.trace[3] = << "DR", i2c.reg >>
                  ELSE /\ i2c.trace[3] = << "DR", i2c.reg \div 256 >>
                       /\ i2c.trace[4] = << "DR", i2c.reg % 256 >>
               /\ i2c.trace[n - 2] = << "DR", (i2c.value \div 256) % 256 >>
               /\ i2c.trace[n - 1] = << "DR", i2c.value % 256 >>
               /\ i2c.trace[n] = << "STOP", 0 >>


====
